---- MODULE Spec2Model ----
(***************************************************************************)
(* The optimisation engine of the Middleman Problem solver                 *)
(* (src/src/lib/utils/middleman.ts): balancing, profit matrix, Maximum     *)
(* Element Method, dual variables, optimality test, improvement loop,      *)
(* results and route list.  Quantities and money are integers; the         *)
(* tolerance epsilon = 0.001 is kept as the comparison x * 1000 > 1.       *)
(* Sequences are 1-indexed: cell (i, j) here is cell [i-1][j-1] there.     *)
(***************************************************************************)
EXTENDS Integers, Sequences, FiniteSets, TLC

\* ---------------------------------------------------------------- bounds
MaxSuppliers == 2
MaxCustomers == 2
MaxQty == 2
MaxCost == 1
MaxPrice == 1
MaxTransport == 1
MaxEvents == 4

\* ------------------------------------------------------ program constants
maxIterations == 20
dualMaxIterations == 50
formLimit == 999999

VARIABLES
  problem,              \* the MiddlemanProblem handed to solveMiddlemanProblem
  pc,                   \* position inside solveMiddlemanProblem
  balancedProblem,      \* result of balanceProblem
  transportationCosts,  \* result of validateTransportationCosts
  profitMatrix,         \* result of calculateProfitMatrix
  transportationPlan,   \* the plan the controller holds
  newPlan,              \* what improveSolution returned last (<<>>: nothing yet)
  remainingSupply,      \* findOptimalTransportation working copy
  remainingDemand,      \* findOptimalTransportation working copy
  allocationStep,       \* findOptimalTransportation step counter
  iterations,           \* solveMiddlemanProblem loop counter
  isOptimal,            \* solveMiddlemanProblem flag
  results,              \* result of calculateResults
  optimalRoutes,        \* result of createOptimalRoutes
  duals,                \* what a direct call of calculateDualVariables returned
  optimality,           \* what a direct call of checkOptimality returned
  entering,             \* the cell a direct call of improveSolution was given
  home                  \* the state of the page component Home

vars == <<problem, pc, balancedProblem, transportationCosts, profitMatrix,
          transportationPlan, newPlan, remainingSupply, remainingDemand, allocationStep,
          iterations, isOptimal, results, optimalRoutes,
          duals, optimality, entering, home>>

\* ---------------------------------------------------------------- helpers
RECURSIVE SumSeq(_)
SumSeq(s) == IF s = <<>> THEN 0 ELSE Head(s) + SumSeq(Tail(s))

Min2(a, b) == IF a <= b THEN a ELSE b

Min3(a, b, c) == Min2(Min2(a, b), c)

Abs(x) == IF x < 0 THEN -x ELSE x

\* F applied to the value of e: e is evaluated once, before F is entered
\* (the loops below hand their working values on this way)
ApplyTo(F(_), e) == CHOOSE r \in {F(x) : x \in {e}} : TRUE

\* x > epsilon, epsilon = 0.001
GreaterThanEpsilon(x) == x * 1000 > 1

RowSum(X, i) == SumSeq(X[i])

ColSum(X, j) == SumSeq([i \in 1..Len(X) |-> X[i][j]])

\* the ids the page gives to the suppliers and customers it creates
SupplierId(i) == <<"S", i>>

CustomerId(j) == <<"C", j>>

FictitiousSupplierId == <<"fictitious-supplier", 0>>

FictitiousCustomerId == <<"fictitious-customer", 0>>

\* ------------------------------------------------------- validateProblem
\* faulty variant: "<" for "<=" in the two quantity tests, so a supply or a
\* demand of 0 passes
validateProblem_AllowsZeroQuantity(p) ==
  /\ Len(p.suppliers) > 0
  /\ \A i \in 1..Len(p.suppliers) :
        ~(p.suppliers[i].supply < 0) /\ p.suppliers[i].purchaseCost >= 0
  /\ Len(p.customers) > 0
  /\ \A j \in 1..Len(p.customers) :
        ~(p.customers[j].demand < 0) /\ p.customers[j].sellingPrice >= 0

\* validation.isValid: no error was pushed
validateProblem(p) ==
  /\ Len(p.suppliers) > 0
  /\ \A i \in 1..Len(p.suppliers) :
        p.suppliers[i].supply > 0 /\ p.suppliers[i].purchaseCost >= 0
  /\ Len(p.customers) > 0
  /\ \A j \in 1..Len(p.customers) :
        p.customers[j].demand > 0 /\ p.customers[j].sellingPrice >= 0

\* ------------------------------------------- validateTransportationCosts
\* costs is [kind, rows]: kind "none" is null or undefined; kind "number" is
\* an array of rows of numbers; kind "object" is an array of rows of
\* TransportationCost objects, a cell being <<cost>>, or <<>> where there is
\* no object with a cost.  A missing matrix, an empty first row, a short row,
\* a short matrix and a cell without a cost leave the cells at 0.
\* faulty variant: the matrix is first filled with 1, not 0
validateTransportationCosts_DefaultsToOne(costs, supplierCount, customerCount) ==
  [i \in 1..supplierCount |-> [j \in 1..customerCount |->
      IF costs.kind = "none" THEN 1
      ELSE IF costs.kind = "number"
      THEN IF Len(costs.rows) > 0 /\ Len(costs.rows[1]) > 0
              /\ i <= Len(costs.rows) /\ j <= Len(costs.rows[i])
           THEN costs.rows[i][j] ELSE 1
      ELSE IF Len(costs.rows) > 0 /\ Len(costs.rows[1]) > 0
              /\ i <= Len(costs.rows) /\ j <= Len(costs.rows[i])
              /\ costs.rows[i][j] # <<>>
           THEN costs.rows[i][j][1] ELSE 1]]

validateTransportationCosts(costs, supplierCount, customerCount) ==
  [i \in 1..supplierCount |-> [j \in 1..customerCount |->
      IF costs.kind = "none" THEN 0
      ELSE IF costs.kind = "number"
      THEN \* Case 1: typeof costs[0][0] === 'number'
           IF Len(costs.rows) > 0 /\ Len(costs.rows[1]) > 0
              /\ i <= Len(costs.rows) /\ j <= Len(costs.rows[i])
           THEN costs.rows[i][j] ELSE 0
      ELSE \* Case 2: costs[0].length > 0, cells are objects
           IF Len(costs.rows) > 0 /\ Len(costs.rows[1]) > 0
              /\ i <= Len(costs.rows) /\ j <= Len(costs.rows[i])
              /\ costs.rows[i][j] # <<>>
           THEN costs.rows[i][j][1] ELSE 0]]

\* -------------------------------------------------------- balanceProblem
\* faulty variant: the fictitious node gets the whole total of the other
\* side instead of the excess
balanceProblem_WholeTotal(suppliers, customers) ==
  LET totalSupply == SumSeq([i \in 1..Len(suppliers) |-> suppliers[i].supply])
      totalDemand == SumSeq([j \in 1..Len(customers) |-> customers[j].demand])
      fictitiousCustomer ==
        [id |-> FictitiousCustomerId, demand |-> totalSupply, sellingPrice |-> 0]
      fictitiousSupplier ==
        [id |-> FictitiousSupplierId, supply |-> totalDemand, purchaseCost |-> 0]
  IN [suppliers |-> IF totalDemand > totalSupply
                    THEN Append(suppliers, fictitiousSupplier) ELSE suppliers,
      customers |-> IF totalSupply > totalDemand
                    THEN Append(customers, fictitiousCustomer) ELSE customers,
      isBalanced |-> (totalSupply = totalDemand),
      fictitiousSupplier |->
          IF totalDemand > totalSupply THEN <<fictitiousSupplier>> ELSE <<>>,
      fictitiousCustomer |->
          IF totalSupply > totalDemand THEN <<fictitiousCustomer>> ELSE <<>>,
      originalSupplyTotal |-> totalSupply,
      originalDemandTotal |-> totalDemand]

\* faulty variant: ">=" for ">" in the first test, so equal totals still get a
\* fictitious customer (of demand 0)
balanceProblem_PadsEqualTotals(suppliers, customers) ==
  LET totalSupply == SumSeq([i \in 1..Len(suppliers) |-> suppliers[i].supply])
      totalDemand == SumSeq([j \in 1..Len(customers) |-> customers[j].demand])
      fictitiousCustomer ==
        [id |-> FictitiousCustomerId, demand |-> totalSupply - totalDemand,
         sellingPrice |-> 0]
      fictitiousSupplier ==
        [id |-> FictitiousSupplierId, supply |-> totalDemand - totalSupply,
         purchaseCost |-> 0]
  IN [suppliers |-> IF totalDemand > totalSupply
                    THEN Append(suppliers, fictitiousSupplier) ELSE suppliers,
      customers |-> IF totalSupply >= totalDemand
                    THEN Append(customers, fictitiousCustomer) ELSE customers,
      isBalanced |-> (totalSupply = totalDemand),
      fictitiousSupplier |->
          IF totalDemand > totalSupply THEN <<fictitiousSupplier>> ELSE <<>>,
      fictitiousCustomer |->
          IF totalSupply >= totalDemand THEN <<fictitiousCustomer>> ELSE <<>>,
      originalSupplyTotal |-> totalSupply,
      originalDemandTotal |-> totalDemand]

balanceProblem(suppliers, customers) ==
  LET totalSupply == SumSeq([i \in 1..Len(suppliers) |-> suppliers[i].supply])
      totalDemand == SumSeq([j \in 1..Len(customers) |-> customers[j].demand])
      fictitiousCustomer ==
        [id |-> FictitiousCustomerId, demand |-> totalSupply - totalDemand,
         sellingPrice |-> 0]
      fictitiousSupplier ==
        [id |-> FictitiousSupplierId, supply |-> totalDemand - totalSupply,
         purchaseCost |-> 0]
  IN [suppliers |-> IF totalDemand > totalSupply /\ ~(totalSupply > totalDemand)
                    THEN Append(suppliers, fictitiousSupplier) ELSE suppliers,
      customers |-> IF totalSupply > totalDemand
                    THEN Append(customers, fictitiousCustomer) ELSE customers,
      isBalanced |-> (totalSupply = totalDemand),
      fictitiousSupplier |->
          IF totalDemand > totalSupply /\ ~(totalSupply > totalDemand)
          THEN <<fictitiousSupplier>> ELSE <<>>,
      fictitiousCustomer |->
          IF totalSupply > totalDemand THEN <<fictitiousCustomer>> ELSE <<>>,
      originalSupplyTotal |-> totalSupply,
      originalDemandTotal |-> totalDemand]

\* ------------------------------------------------- calculateProfitMatrix
\* faulty variant: the transport cost is added instead of subtracted
calculateProfitMatrix_AddsTransport(suppliers, customers, costs) ==
  [i \in 1..Len(suppliers) |-> [j \in 1..Len(customers) |->
      customers[j].sellingPrice - suppliers[i].purchaseCost
        + (IF i <= Len(costs) /\ j <= Len(costs[i]) THEN costs[i][j] ELSE 0)]]

calculateProfitMatrix(suppliers, customers, costs) ==
  [i \in 1..Len(suppliers) |-> [j \in 1..Len(customers) |->
      LET sellingPrice == customers[j].sellingPrice
          purchaseCost == suppliers[i].purchaseCost
          transportationCost ==
            IF i <= Len(costs) /\ j <= Len(costs[i]) THEN costs[i][j] ELSE 0
      IN sellingPrice - purchaseCost - transportationCost]]

\* row-major list of the cells of an m x n matrix (the order of every
\* "for i ... for j ..." scan in the source)
AllCells(m, n) == [k \in 1..(m * n) |-> <<((k - 1) \div n) + 1, ((k - 1) % n) + 1>>]

\* --------------------------------------------- findOptimalTransportation
\* the scan for the maximum profit among the cells still open; <<0, 0>> is
\* maxI = maxJ = -1 (maxProfit still -Infinity)
\* faulty variant: ">=" for ">" in the comparison with maxProfit, so of equal
\* profits the last cell of the scan wins
RECURSIVE ScanMaxElement_LastOnTie(_, _, _, _, _)
ScanMaxElement_LastOnTie(Z, rs, rd, k, best) ==
  LET cells == AllCells(Len(rs), Len(rd))
  IN IF k > Len(cells) THEN best
     ELSE LET i == cells[k][1]
              j == cells[k][2]
              better == /\ rs[i] > 0
                        /\ rd[j] > 0
                        /\ (best = <<0, 0>> \/ Z[i][j] >= Z[best[1]][best[2]])
          IN ApplyTo(LAMBDA b : ScanMaxElement_LastOnTie(Z, rs, rd, k + 1, b),
                     IF better THEN <<i, j>> ELSE best)

RECURSIVE ScanMaxElement(_, _, _, _, _)
ScanMaxElement(Z, rs, rd, k, best) ==
  LET cells == AllCells(Len(rs), Len(rd))
  IN IF k > Len(cells) THEN best
     ELSE LET i == cells[k][1]
              j == cells[k][2]
              better == /\ rs[i] > 0
                        /\ rd[j] > 0
                        /\ (best = <<0, 0>> \/ Z[i][j] > Z[best[1]][best[2]])
          IN ApplyTo(LAMBDA b : ScanMaxElement(Z, rs, rd, k + 1, b),
                     IF better THEN <<i, j>> ELSE best)

MaxElement(Z, rs, rd) == ScanMaxElement(Z, rs, rd, 1, <<0, 0>>)

\* the condition of the while loop of findOptimalTransportation
AllocationOpen(rs, rd) ==
  (\E i \in 1..Len(rs) : rs[i] > 0) /\ (\E j \in 1..Len(rd) : rd[j] > 0)

\* one pass of the while loop; st = [plan, rs, rd, step, stop]
AllocationAt(st, maxI, maxJ, allocation) ==
  [plan |-> [st.plan EXCEPT ![maxI][maxJ] = allocation],
   rs |-> [st.rs EXCEPT ![maxI] = @ - allocation],
   rd |-> [st.rd EXCEPT ![maxJ] = @ - allocation],
   step |-> st.step + 1,
   stop |-> FALSE]

\* faulty variant: the whole remaining supply is allocated, the remaining
\* demand is not looked at
AllocationPass_IgnoresDemand(Z, st) ==
  ApplyTo(LAMBDA cell :
            IF cell = <<0, 0>> THEN [st EXCEPT !.stop = TRUE]
            ELSE AllocationAt(st, cell[1], cell[2], st.rs[cell[1]]),
          MaxElement(Z, st.rs, st.rd))

\* faulty variant: a step moves a single unit, not all that fits
AllocationPass_OneUnit(Z, st) ==
  ApplyTo(LAMBDA cell :
            IF cell = <<0, 0>> THEN [st EXCEPT !.stop = TRUE]
            ELSE AllocationAt(st, cell[1], cell[2],
                              Min3(st.rs[cell[1]], st.rd[cell[2]], 1)),
          MaxElement(Z, st.rs, st.rd))

AllocationPass(Z, st) ==
  ApplyTo(LAMBDA cell :
            IF cell = <<0, 0>> THEN [st EXCEPT !.stop = TRUE]
            ELSE AllocationAt(st, cell[1], cell[2],
                              Min2(st.rs[cell[1]], st.rd[cell[2]])),
          MaxElement(Z, st.rs, st.rd))

AllocationStart(suppliers, customers) ==
  [plan |-> [i \in 1..Len(suppliers) |-> [j \in 1..Len(customers) |-> 0]],
   rs |-> [i \in 1..Len(suppliers) |-> suppliers[i].supply],
   rd |-> [j \in 1..Len(customers) |-> customers[j].demand],
   step |-> 0,
   stop |-> FALSE]

RECURSIVE AllocationLoop(_, _)
AllocationLoop(Z, st) ==
  IF AllocationOpen(st.rs, st.rd) /\ ~st.stop
  THEN ApplyTo(LAMBDA s : AllocationLoop(Z, s), AllocationPass(Z, st))
  ELSE st

findOptimalTransportation(Z, suppliers, customers) ==
  AllocationLoop(Z, AllocationStart(suppliers, customers)).plan

\* ------------------------------------------------ calculateDualVariables
\* null is <<>>, a known value v is <<v>>
BasicVariables(X, m, n) ==
  SelectSeq(AllCells(m, n), LAMBDA c : X[c[1]][c[2]] > 0)

\* one pass of "for (const {i, j} of basicVariables)"; st = [alpha, beta, changed]
RECURSIVE DualPass(_, _, _, _)
DualPass(Z, bv, k, st) ==
  IF k > Len(bv) THEN st
  ELSE LET i == bv[k][1]
           j == bv[k][2]
       IN ApplyTo(LAMBDA s : DualPass(Z, bv, k + 1, s),
            IF st.alpha[i] # <<>> /\ st.beta[j] = <<>>
            THEN [st EXCEPT !.beta[j] = <<Z[i][j] - st.alpha[i][1]>>,
                            !.changed = TRUE]
            ELSE IF st.alpha[i] = <<>> /\ st.beta[j] # <<>>
            THEN [st EXCEPT !.alpha[i] = <<Z[i][j] - st.beta[j][1]>>,
                            !.changed = TRUE]
            ELSE st)

RECURSIVE DualLoop(_, _, _, _)
DualLoop(Z, bv, st, iteration) ==
  IF st.changed /\ iteration < dualMaxIterations
  THEN ApplyTo(LAMBDA s : DualLoop(Z, bv, s, iteration + 1),
               DualPass(Z, bv, 1, [st EXCEPT !.changed = FALSE]))
  ELSE st

\* "Fill any remaining null values with 0"
FillNulls(solved, m, n) ==
  [alpha |-> [i \in 1..m |->
                IF solved.alpha[i] = <<>> THEN 0 ELSE solved.alpha[i][1]],
   beta |-> [j \in 1..n |->
                IF solved.beta[j] = <<>> THEN 0 ELSE solved.beta[j][1]]]

\* faulty variant: the last supplier with a basic variable is the one pinned
DualStart_PinsLastRow(rows, m, n) ==
  [alpha |-> [i \in 1..m |->
                IF i \in rows /\ (\A r \in rows : i >= r) THEN <<0>> ELSE <<>>],
   beta |-> [j \in 1..n |-> <<>>],
   changed |-> TRUE]

\* the first supplier with a basic variable gets alpha = 0; rows is the set of
\* suppliers with a basic variable
DualStart(rows, m, n) ==
  [alpha |-> [i \in 1..m |->
                IF i \in rows /\ (\A r \in rows : i <= r) THEN <<0>> ELSE <<>>],
   beta |-> [j \in 1..n |-> <<>>],
   changed |-> TRUE]

DualFromBasic(Z, bv, m, n) ==
  IF bv = <<>>
  THEN [alpha |-> [i \in 1..m |-> 0], beta |-> [j \in 1..n |-> 0]]
  ELSE ApplyTo(LAMBDA solved : FillNulls(solved, m, n),
               DualLoop(Z, bv, DualStart({bv[k][1] : k \in 1..Len(bv)}, m, n), 0))

calculateDualVariables(Z, X, m, n) ==
  ApplyTo(LAMBDA bv : DualFromBasic(Z, bv, m, n), BasicVariables(X, m, n))

\* ------------------------------------------------------- checkOptimality
\* improvements.sort((a, b) => b.improvement - a.improvement): stable, so
\* equal improvements keep their row-major order
\* faulty variant: the comparator is a.improvement - b.improvement
InsertImprovement_Ascending(x, t) ==
  SelectSeq(t, LAMBDA y : y.improvement < x.improvement)
    \o <<x>> \o SelectSeq(t, LAMBDA y : ~(y.improvement < x.improvement))

InsertImprovement(x, t) ==
  SelectSeq(t, LAMBDA y : y.improvement > x.improvement)
    \o <<x>> \o SelectSeq(t, LAMBDA y : ~(y.improvement > x.improvement))

RECURSIVE SortImprovements(_)
SortImprovements(s) ==
  IF s = <<>> THEN <<>>
  ELSE ApplyTo(LAMBDA t : InsertImprovement(Head(s), t), SortImprovements(Tail(s)))

\* opportunity cost of cell c: zij - alpha_i - beta_j
OpportunityCost(Z, dualVariables, c) ==
  Z[c[1]][c[2]] - dualVariables.alpha[c[1]] - dualVariables.beta[c[2]]

\* the improvements in the order the double loop pushes them
FoundImprovements(Z, X, m, n, dualVariables) ==
  ApplyTo(LAMBDA found :
            [k \in 1..Len(found) |->
               [supplierIndex |-> found[k][1],
                customerIndex |-> found[k][2],
                improvement |-> OpportunityCost(Z, dualVariables, found[k]),
                currentProfit |-> 0,
                potentialProfit |-> Z[found[k][1]][found[k][2]]]],
          SelectSeq(AllCells(m, n),
            LAMBDA c : /\ ~GreaterThanEpsilon(X[c[1]][c[2]])
                       /\ GreaterThanEpsilon(OpportunityCost(Z, dualVariables, c))))

checkOptimality(Z, X, suppliers, customers) ==
  ApplyTo(LAMBDA improvements :
            [isOptimal |-> (Len(improvements) = 0), improvements |-> improvements],
          ApplyTo(LAMBDA dualVariables :
                    ApplyTo(LAMBDA pushed : SortImprovements(pushed),
                            FoundImprovements(Z, X, Len(suppliers), Len(customers),
                                              dualVariables)),
                  calculateDualVariables(Z, X, Len(suppliers), Len(customers))))

\* ----------------------------------------------------------- arraysEqual
arraysEqual(a, b) ==
  /\ Len(a) = Len(b)
  /\ \A i \in 1..Len(a) :
       /\ Len(a[i]) = Len(b[i])
       /\ \A j \in 1..Len(a[i]) : ~GreaterThanEpsilon(Abs(a[i][j] - b[i][j]))

\* ------------------------------------------------------- improveSolution
\* faulty variant: the reallocation moves a unit without looking at the
\* unmet demand or the available supply
improveSolution_UncheckedShift(plan, improvement, suppliers, customers) ==
  LET i == improvement.supplierIndex
      j == improvement.customerIndex
      availableSupply == suppliers[i].supply - RowSum(plan, i)
      unmetDemand == customers[j].demand - ColSum(plan, j)
      maxNewAllocation == Min2(availableSupply, unmetDemand)
      rowK == {k \in 1..Len(customers) : k # j /\ plan[i][k] > 0}
      colK == {k \in 1..Len(suppliers) : k # i /\ plan[k][j] > 0}
      firstRowK == CHOOSE k \in rowK : \A q \in rowK : k <= q
      firstColK == CHOOSE k \in colK : \A q \in colK : k <= q
  IN IF maxNewAllocation > 0
     THEN [plan EXCEPT ![i][j] = @ + maxNewAllocation]
     ELSE IF rowK # {}
     THEN [plan EXCEPT ![i][firstRowK] = @ - 1, ![i][j] = @ + 1]
     ELSE IF colK # {}
     THEN [plan EXCEPT ![firstColK][j] = @ - 1, ![i][j] = @ + 1]
     ELSE plan

improveSolution(plan, improvement, suppliers, customers) ==
  LET i == improvement.supplierIndex
      j == improvement.customerIndex
      currentSupplyUsed == RowSum(plan, i)
      currentDemandMet == ColSum(plan, j)
      availableSupply == suppliers[i].supply - currentSupplyUsed
      unmetDemand == customers[j].demand - currentDemandMet
      maxNewAllocation == Min2(availableSupply, unmetDemand)
      \* the customers k at which the first for loop would reallocate and break
      rowK == {k \in 1..Len(customers) :
                 k # j /\ plan[i][k] > 0 /\ Min3(plan[i][k], unmetDemand, 1) > 0}
      \* the suppliers k at which the second for loop would reallocate and break
      colK == {k \in 1..Len(suppliers) :
                 k # i /\ plan[k][j] > 0 /\ Min3(plan[k][j], availableSupply, 1) > 0}
      firstRowK == CHOOSE k \in rowK : \A q \in rowK : k <= q
      firstColK == CHOOSE k \in colK : \A q \in colK : k <= q
  IN IF maxNewAllocation > 0
     THEN [plan EXCEPT ![i][j] = @ + maxNewAllocation]
     ELSE IF rowK # {}
     THEN LET canReduce == Min3(plan[i][firstRowK], unmetDemand, 1)
          IN [plan EXCEPT ![i][firstRowK] = @ - canReduce, ![i][j] = @ + canReduce]
     ELSE IF colK # {}
     THEN LET canReduce == Min3(plan[firstColK][j], availableSupply, 1)
          IN [plan EXCEPT ![firstColK][j] = @ - canReduce, ![i][j] = @ + canReduce]
     ELSE plan

\* ------------------------------------------------------ calculateResults
\* faulty variant: revenue, too, is counted only between real suppliers and
\* real customers
calculateResults_RealRevenueOnly(plan, suppliers, customers, costs) ==
  LET cells == AllCells(Len(suppliers), Len(customers))
      real(c) == /\ plan[c[1]][c[2]] > 0
                 /\ customers[c[2]].id # FictitiousCustomerId
                 /\ suppliers[c[1]].id # FictitiousSupplierId
      totalPurchaseCost == SumSeq([k \in 1..Len(cells) |->
          IF real(cells[k])
          THEN plan[cells[k][1]][cells[k][2]] * suppliers[cells[k][1]].purchaseCost
          ELSE 0])
      totalTransportationCost == SumSeq([k \in 1..Len(cells) |->
          IF real(cells[k])
          THEN plan[cells[k][1]][cells[k][2]] * costs[cells[k][1]][cells[k][2]]
          ELSE 0])
      totalRevenue == SumSeq([k \in 1..Len(cells) |->
          IF real(cells[k])
          THEN plan[cells[k][1]][cells[k][2]] * customers[cells[k][2]].sellingPrice
          ELSE 0])
  IN [totalPurchaseCost |-> totalPurchaseCost,
      totalTransportationCost |-> totalTransportationCost,
      totalRevenue |-> totalRevenue,
      totalProfit |-> totalRevenue - totalPurchaseCost - totalTransportationCost]

calculateResults(plan, suppliers, customers, costs) ==
  ApplyTo(LAMBDA validatedCosts :
    ApplyTo(LAMBDA cells :
      LET quantity(c) == plan[c[1]][c[2]]
          isFictitiousCustomer(c) == customers[c[2]].id = FictitiousCustomerId
          isFictitiousSupplier(c) == suppliers[c[1]].id = FictitiousSupplierId
          totalPurchaseCost == SumSeq([k \in 1..Len(cells) |->
              IF quantity(cells[k]) > 0 /\ ~isFictitiousCustomer(cells[k])
                 /\ ~isFictitiousSupplier(cells[k])
              THEN quantity(cells[k]) * suppliers[cells[k][1]].purchaseCost ELSE 0])
          totalTransportationCost == SumSeq([k \in 1..Len(cells) |->
              IF quantity(cells[k]) > 0 /\ ~isFictitiousCustomer(cells[k])
                 /\ ~isFictitiousSupplier(cells[k])
              THEN quantity(cells[k]) * validatedCosts[cells[k][1]][cells[k][2]]
              ELSE 0])
          totalRevenue == SumSeq([k \in 1..Len(cells) |->
              IF quantity(cells[k]) > 0 /\ ~isFictitiousCustomer(cells[k])
              THEN quantity(cells[k]) * customers[cells[k][2]].sellingPrice ELSE 0])
      IN [totalPurchaseCost |-> totalPurchaseCost,
          totalTransportationCost |-> totalTransportationCost,
          totalRevenue |-> totalRevenue,
          totalProfit |-> totalRevenue - totalPurchaseCost - totalTransportationCost],
      AllCells(Len(suppliers), Len(customers))),
    validateTransportationCosts([kind |-> "number", rows |-> costs],
                                Len(suppliers), Len(customers)))

\* --------------------------------------------------- createOptimalRoutes
\* faulty variant: the routes of the fictitious supplier are not skipped
createOptimalRoutes_KeepsFictitiousSupplier(plan, suppliers, customers, costs, Z) ==
  LET kept == SelectSeq(AllCells(Len(suppliers), Len(customers)),
                LAMBDA c : /\ plan[c[1]][c[2]] > 0
                           /\ customers[c[2]].id # FictitiousCustomerId)
  IN [k \in 1..Len(kept) |->
        [supplierId |-> suppliers[kept[k][1]].id,
         customerId |-> customers[kept[k][2]].id,
         quantity |-> plan[kept[k][1]][kept[k][2]],
         unitProfit |-> Z[kept[k][1]][kept[k][2]],
         purchaseCost |-> suppliers[kept[k][1]].purchaseCost,
         transportationCost |-> costs[kept[k][1]][kept[k][2]],
         sellingPrice |-> customers[kept[k][2]].sellingPrice]]

createOptimalRoutes(plan, suppliers, customers, costs, Z) ==
  LET validatedCosts ==
        validateTransportationCosts([kind |-> "number", rows |-> costs],
                                    Len(suppliers), Len(customers))
      kept == SelectSeq(AllCells(Len(suppliers), Len(customers)),
                LAMBDA c : /\ plan[c[1]][c[2]] > 0
                           /\ customers[c[2]].id # FictitiousCustomerId
                           /\ suppliers[c[1]].id # FictitiousSupplierId)
  IN [k \in 1..Len(kept) |->
        [supplierId |-> suppliers[kept[k][1]].id,
         customerId |-> customers[kept[k][2]].id,
         quantity |-> plan[kept[k][1]][kept[k][2]],
         unitProfit |-> Z[kept[k][1]][kept[k][2]],
         purchaseCost |-> suppliers[kept[k][1]].purchaseCost,
         transportationCost |-> validatedCosts[kept[k][1]][kept[k][2]],
         sellingPrice |-> customers[kept[k][2]].sellingPrice]]

\* ----------------------------------------------------------------- inputs
SupplierLists(m) ==
  {[i \in 1..m |-> [id |-> SupplierId(i), supply |-> q[i], purchaseCost |-> c[i]]] :
     q \in [1..m -> 1..MaxQty], c \in [1..m -> 0..MaxCost]}

CustomerLists(n) ==
  {[j \in 1..n |-> [id |-> CustomerId(j), demand |-> q[j], sellingPrice |-> c[j]]] :
     q \in [1..n -> 1..MaxQty], c \in [1..n -> 0..MaxPrice]}

\* a full matrix of TransportationCost objects, or no matrix at all
CostInputs(m, n) ==
  {[kind |-> "object", rows |-> [i \in 1..m |-> [j \in 1..n |-> <<t[i][j]>>]]] :
     t \in [1..m -> [1..n -> 0..MaxTransport]]}
  \cup {[kind |-> "none", rows |-> <<>>]}

\* rows of at most n cells, a cell being an object with the cost MaxTransport
\* or no such object
DefectiveRows(n) ==
  UNION {[1..len -> {<<MaxTransport>>, <<>>}] : len \in 0..n}

\* matrices with rows missing, rows too short or cells without a cost
DefectiveCostInputs(m, n) ==
  {[kind |-> "object", rows |-> r] :
     r \in UNION {[1..len -> DefectiveRows(n)] : len \in 0..m}}

Problems ==
  UNION {UNION {
    {[suppliers |-> s, customers |-> c, transportationCosts |-> t] :
       s \in SupplierLists(m), c \in CustomerLists(n), t \in CostInputs(m, n)} :
    n \in 1..MaxCustomers} : m \in 1..MaxSuppliers}

\* problems as a caller can hand them in, before any validation: lists that
\* may be empty, quantities that may be zero or negative, costs and prices
\* that may be negative
UncheckedSuppliers(m) ==
  {[i \in 1..m |-> [id |-> SupplierId(i), supply |-> q[i], purchaseCost |-> c[i]]] :
     q \in [1..m -> {-1, 0, 1}], c \in [1..m -> {-1, 0}]}

UncheckedCustomers(n) ==
  {[j \in 1..n |-> [id |-> CustomerId(j), demand |-> q[j], sellingPrice |-> c[j]]] :
     q \in [1..n -> {-1, 0, 1}], c \in [1..n -> {-1, 1}]}

UncheckedProblems ==
  UNION {UNION {
    {[suppliers |-> s, customers |-> c,
      transportationCosts |-> [kind |-> "none", rows |-> <<>>]] :
       s \in UncheckedSuppliers(m), c \in UncheckedCustomers(n)} :
    n \in 0..MaxCustomers} : m \in 0..MaxSuppliers}

\* problems with a defective cost matrix (every cost and price at its bound)
DefectiveProblems ==
  UNION {UNION {
    {[suppliers |-> s, customers |-> c, transportationCosts |-> t] :
       s \in {l \in SupplierLists(m) : \A i \in 1..m : l[i].purchaseCost = MaxCost},
       c \in {l \in CustomerLists(n) : \A j \in 1..n : l[j].sellingPrice = MaxPrice},
       t \in DefectiveCostInputs(m, n)} :
    n \in 1..MaxCustomers} : m \in 1..MaxSuppliers}

smallExample ==
  [suppliers |-> <<[id |-> SupplierId(1), supply |-> 50, purchaseCost |-> 8],
                   [id |-> SupplierId(2), supply |-> 70, purchaseCost |-> 10]>>,
   customers |-> <<[id |-> CustomerId(1), demand |-> 40, sellingPrice |-> 20],
                   [id |-> CustomerId(2), demand |-> 60, sellingPrice |-> 25]>>,
   transportationCosts |->
     [kind |-> "object", rows |-> <<(<< <<2>>, <<4>> >>), (<< <<3>>, <<1>> >>)>>]]

\* ------------------------------------------------------------- the page
\* the state of Home after its first render: the useState initial values, no
\* calculation waiting on its timer (timeout = <<>>), no user event handled yet
\* (events counts them against MaxEvents).  null is <<>>, a value v is <<v>>.
HomeStart ==
  [suppliers |-> <<>>,
   customers |-> <<>>,
   transportationCosts |-> <<>>,
   solution |-> <<>>,
   editingSupplier |-> <<>>,
   editingCustomer |-> <<>>,
   showSupplierForm |-> FALSE,
   showCustomerForm |-> FALSE,
   isCalculating |-> FALSE,
   error |-> <<>>,
   timeout |-> <<>>,
   events |-> 0]

\* ------------------------------------------------- solveMiddlemanProblem
Init ==
  /\ problem \in Problems \cup DefectiveProblems \cup {smallExample}
                  \cup UncheckedProblems
  /\ pc = "start"
  /\ balancedProblem = <<>>
  /\ transportationCosts = <<>>
  /\ profitMatrix = <<>>
  /\ transportationPlan = <<>>
  /\ newPlan = <<>>
  /\ remainingSupply = <<>>
  /\ remainingDemand = <<>>
  /\ allocationStep = 0
  /\ iterations = 0
  /\ isOptimal = FALSE
  /\ results = <<>>
  /\ optimalRoutes = <<>>
  /\ duals = <<>>
  /\ optimality = <<>>
  /\ entering = <<>>
  /\ home = HomeStart

\* faulty variant: the fictitious node is pushed onto the lists of the problem
\* itself (no copy is made)
Balance_PushesOntoInput ==
  /\ pc = "start"
  /\ validateProblem(problem)
  /\ balancedProblem' = balanceProblem(problem.suppliers, problem.customers)
  /\ problem' = [problem EXCEPT !.suppliers = balancedProblem'.suppliers,
                               !.customers = balancedProblem'.customers]
  /\ pc' = "costs"
  /\ UNCHANGED <<duals, optimality, entering, home>>
  /\ UNCHANGED <<newPlan, transportationCosts, profitMatrix, transportationPlan,
                 remainingSupply, remainingDemand, allocationStep, iterations,
                 isOptimal, results, optimalRoutes>>

\* step 1: validation found an error, solveMiddlemanProblem throws
Reject ==
  /\ pc = "start"
  /\ ~validateProblem(problem)
  /\ pc' = "error"
  /\ UNCHANGED <<duals, optimality, entering, home>>
  /\ UNCHANGED <<problem, newPlan, balancedProblem, transportationCosts, profitMatrix,
                 transportationPlan, remainingSupply, remainingDemand, allocationStep,
                 iterations, isOptimal, results, optimalRoutes>>

\* steps 1 and 2: validate, then balance
Balance ==
  /\ pc = "start"
  /\ validateProblem(problem)
  /\ balancedProblem' = balanceProblem(problem.suppliers, problem.customers)
  /\ pc' = "costs"
  /\ UNCHANGED <<duals, optimality, entering, home>>
  /\ UNCHANGED <<problem, newPlan, transportationCosts, profitMatrix, transportationPlan,
                 remainingSupply, remainingDemand, allocationStep, iterations,
                 isOptimal, results, optimalRoutes>>

\* step 3: the cost matrix of the balanced problem
NormalizeCosts ==
  /\ pc = "costs"
  /\ transportationCosts' =
       validateTransportationCosts(problem.transportationCosts,
         Len(balancedProblem.suppliers), Len(balancedProblem.customers))
  /\ pc' = "profit"
  /\ UNCHANGED <<duals, optimality, entering, home>>
  /\ UNCHANGED <<problem, newPlan, balancedProblem, profitMatrix, transportationPlan,
                 remainingSupply, remainingDemand, allocationStep, iterations,
                 isOptimal, results, optimalRoutes>>

\* step 4: the profit matrix
CalcProfit ==
  /\ pc = "profit"
  /\ profitMatrix' = calculateProfitMatrix(balancedProblem.suppliers,
                       balancedProblem.customers, transportationCosts)
  /\ pc' = "initial"
  /\ UNCHANGED <<duals, optimality, entering, home>>
  /\ UNCHANGED <<problem, newPlan, balancedProblem, transportationCosts, transportationPlan,
                 remainingSupply, remainingDemand, allocationStep, iterations,
                 isOptimal, results, optimalRoutes>>

\* step 5, entry of findOptimalTransportation: empty plan, working copies
AllocBegin ==
  /\ pc = "initial"
  /\ \E st \in {AllocationStart(balancedProblem.suppliers, balancedProblem.customers)} :
        /\ transportationPlan' = st.plan
        /\ remainingSupply' = st.rs
        /\ remainingDemand' = st.rd
        /\ allocationStep' = st.step
  /\ pc' = "allocate"
  /\ UNCHANGED <<duals, optimality, entering, home>>
  /\ UNCHANGED <<problem, newPlan, balancedProblem, transportationCosts, profitMatrix,
                 iterations, isOptimal, results, optimalRoutes>>

\* step 5, one pass of the while loop of findOptimalTransportation
AllocStep ==
  /\ pc = "allocate"
  /\ AllocationOpen(remainingSupply, remainingDemand)
  /\ \E st \in {AllocationPass(profitMatrix,
                 [plan |-> transportationPlan, rs |-> remainingSupply,
                  rd |-> remainingDemand, step |-> allocationStep, stop |-> FALSE])} :
        /\ transportationPlan' = st.plan
        /\ remainingSupply' = st.rs
        /\ remainingDemand' = st.rd
        /\ allocationStep' = st.step
        /\ pc' = IF st.stop THEN "check" ELSE "allocate"
  /\ UNCHANGED <<duals, optimality, entering, home>>
  /\ UNCHANGED <<problem, newPlan, balancedProblem, transportationCosts, profitMatrix,
                 iterations, isOptimal, results, optimalRoutes>>

\* step 5, the while loop ends and the plan is returned
AllocReturn ==
  /\ pc = "allocate"
  /\ ~AllocationOpen(remainingSupply, remainingDemand)
  /\ pc' = "check"
  /\ UNCHANGED <<duals, optimality, entering, home>>
  /\ UNCHANGED <<problem, newPlan, balancedProblem, transportationCosts, profitMatrix,
                 transportationPlan, remainingSupply, remainingDemand,
                 allocationStep, iterations, isOptimal, results, optimalRoutes>>

\* step 6: is the initial plan already optimal?
InitialCheck ==
  /\ pc = "check"
  /\ \E initialOptimalityCheck \in
          {checkOptimality(profitMatrix, transportationPlan,
                           balancedProblem.suppliers, balancedProblem.customers)} :
        IF initialOptimalityCheck.isOptimal
        THEN isOptimal' = TRUE /\ pc' = "results"
        ELSE isOptimal' = isOptimal /\ pc' = "loop"
  /\ UNCHANGED <<duals, optimality, entering, home>>
  /\ UNCHANGED <<problem, newPlan, balancedProblem, transportationCosts, profitMatrix,
                 transportationPlan, remainingSupply, remainingDemand,
                 allocationStep, iterations, results, optimalRoutes>>

\* the condition of the improvement loop
LoopCondition(optimal, n) == ~optimal /\ n < maxIterations

\* what one pass of the improvement loop leaves behind:
\* [plan, isOptimal, iterations, exit] (exit: the pass ended in a break)
\* the tail of the pass once improveSolution has returned newPlan
\* faulty variant: an unchanged plan is taken for an optimal one
LoopAccept_OptimalWhenUnchanged(plan, n, returned) ==
  IF arraysEqual(plan, returned)
  THEN [plan |-> plan, newPlan |-> returned, isOptimal |-> TRUE, iterations |-> n,
        exit |-> TRUE]
  ELSE [plan |-> returned, newPlan |-> returned, isOptimal |-> FALSE,
        iterations |-> n + 1, exit |-> FALSE]

\* faulty variant: an unchanged plan does not leave the loop ("continue" for
\* "break")
LoopAccept_NoBreak(plan, n, returned) ==
  IF arraysEqual(plan, returned)
  THEN [plan |-> plan, newPlan |-> returned, isOptimal |-> FALSE, iterations |-> n,
        exit |-> FALSE]
  ELSE [plan |-> returned, newPlan |-> returned, isOptimal |-> FALSE,
        iterations |-> n + 1, exit |-> FALSE]

\* faulty variant: on an unchanged plan the loop is left with an empty
\* (all-zero) plan instead of the plan held so far
LoopAccept_ClearsPlanOnStall(plan, n, returned) ==
  IF arraysEqual(plan, returned)
  THEN [plan |-> [i \in 1..Len(plan) |-> [j \in 1..Len(plan[i]) |-> 0]],
        newPlan |-> returned, isOptimal |-> FALSE, iterations |-> n, exit |-> TRUE]
  ELSE [plan |-> returned, newPlan |-> returned, isOptimal |-> FALSE,
        iterations |-> n + 1, exit |-> FALSE]

\* faulty variant: the pass that left the plan unchanged is counted
LoopAccept_CountsStalledPass(plan, n, returned) ==
  IF arraysEqual(plan, returned)
  THEN [plan |-> plan, newPlan |-> returned, isOptimal |-> FALSE,
        iterations |-> n + 1, exit |-> TRUE]
  ELSE [plan |-> returned, newPlan |-> returned, isOptimal |-> FALSE,
        iterations |-> n + 1, exit |-> FALSE]

LoopAccept(plan, n, returned) ==
  IF arraysEqual(plan, returned)
  THEN [plan |-> plan, newPlan |-> returned, isOptimal |-> FALSE, iterations |-> n,
        exit |-> TRUE]
  ELSE [plan |-> returned, newPlan |-> returned, isOptimal |-> FALSE,
        iterations |-> n + 1, exit |-> FALSE]

\* the pass once checkOptimality has returned optimalityCheck
LoopDecide(plan, n, optimalityCheck) ==
  IF ~optimalityCheck.isOptimal /\ Len(optimalityCheck.improvements) > 0
  THEN ApplyTo(LAMBDA returned : LoopAccept(plan, n, returned),
         improveSolution(plan, optimalityCheck.improvements[1],
                         balancedProblem.suppliers, balancedProblem.customers))
  ELSE IF ~optimalityCheck.isOptimal
  THEN [plan |-> plan, newPlan |-> <<>>, isOptimal |-> FALSE, iterations |-> n,
        exit |-> TRUE]
  ELSE [plan |-> plan, newPlan |-> <<>>, isOptimal |-> TRUE, iterations |-> n + 1,
        exit |-> FALSE]

LoopBody(plan, n) ==
  ApplyTo(LAMBDA optimalityCheck : LoopDecide(plan, n, optimalityCheck),
    checkOptimality(profitMatrix, plan,
                    balancedProblem.suppliers, balancedProblem.customers))

\* step 6: test of the loop condition and, when it holds, one pass of the loop
LoopPass ==
  /\ pc = "loop"
  /\ IF LoopCondition(isOptimal, iterations)
     THEN \E after \in {LoopBody(transportationPlan, iterations)} :
             /\ transportationPlan' = after.plan
             /\ newPlan' = after.newPlan
             /\ isOptimal' = after.isOptimal
             /\ iterations' = after.iterations
             /\ pc' = IF after.exit THEN "results" ELSE "loop"
     ELSE /\ pc' = "results"
          /\ UNCHANGED <<transportationPlan, newPlan, isOptimal, iterations>>
  /\ UNCHANGED <<duals, optimality, entering, home>>
  /\ UNCHANGED <<problem, balancedProblem, transportationCosts, profitMatrix,
                 remainingSupply, remainingDemand, allocationStep, results,
                 optimalRoutes>>

\* step 7: the financial totals
CalcResults ==
  /\ pc = "results"
  /\ results' = calculateResults(transportationPlan, balancedProblem.suppliers,
                  balancedProblem.customers, transportationCosts)
  /\ pc' = "routes"
  /\ UNCHANGED <<duals, optimality, entering, home>>
  /\ UNCHANGED <<problem, newPlan, balancedProblem, transportationCosts, profitMatrix,
                 transportationPlan, remainingSupply, remainingDemand,
                 allocationStep, iterations, isOptimal, optimalRoutes>>

\* step 8: the route list; the solution is returned
CreateRoutes ==
  /\ pc = "routes"
  /\ optimalRoutes' = createOptimalRoutes(transportationPlan,
                        balancedProblem.suppliers, balancedProblem.customers,
                        transportationCosts, profitMatrix)
  /\ pc' = "done"
  /\ UNCHANGED <<duals, optimality, entering, home>>
  /\ UNCHANGED <<problem, newPlan, balancedProblem, transportationCosts, profitMatrix,
                 transportationPlan, remainingSupply, remainingDemand,
                 allocationStep, iterations, isOptimal, results>>

Next ==
  \/ Reject
  \/ Balance
  \/ NormalizeCosts
  \/ CalcProfit
  \/ AllocBegin
  \/ AllocStep
  \/ AllocReturn
  \/ InitialCheck
  \/ LoopPass
  \/ CalcResults
  \/ CreateRoutes

Spec == Init /\ [][Next]_vars

\* the solver is one synchronous call: every step that can run does run
FairSpec == Spec /\ WF_vars(Next)

\* -------------------------------------------- improveSolution on its own
\* every non-negative plan within the supplies and the demands
CappedPlans(sup, cus) ==
  {X \in [1..Len(sup) -> [1..Len(cus) -> 0..MaxQty]] :
     /\ \A i \in 1..Len(sup) : RowSum(X, i) <= sup[i].supply
     /\ \A j \in 1..Len(cus) : ColSum(X, j) <= cus[j].demand}

\* improveSolution reads the supplies, the demands and the plan only
ImproveInputs == {p \in Problems : p.transportationCosts.kind = "none"}

\* a balanced problem and any plan within its caps, ready for improveSolution
InitImprove ==
  /\ problem \in ImproveInputs
  /\ pc = "improve"
  /\ balancedProblem = balanceProblem(problem.suppliers, problem.customers)
  /\ transportationCosts =
       validateTransportationCosts(problem.transportationCosts,
         Len(balancedProblem.suppliers), Len(balancedProblem.customers))
  /\ profitMatrix = calculateProfitMatrix(balancedProblem.suppliers,
                      balancedProblem.customers, transportationCosts)
  /\ transportationPlan \in
       CappedPlans(balancedProblem.suppliers, balancedProblem.customers)
  /\ newPlan = <<>>
  /\ remainingSupply = <<>>
  /\ remainingDemand = <<>>
  /\ allocationStep = 0
  /\ iterations = 0
  /\ isOptimal = FALSE
  /\ results = <<>>
  /\ optimalRoutes = <<>>
  /\ duals = <<>>
  /\ optimality = <<>>
  /\ entering = <<>>
  /\ home = HomeStart

\* faulty variant: improveSolution writes into the plan it was given instead
\* of a copy
ImproveCall_InPlace ==
  /\ pc = "improve"
  /\ \E i \in 1..Len(balancedProblem.suppliers) :
       \E j \in 1..Len(balancedProblem.customers) :
         /\ newPlan' = improveSolution(transportationPlan,
                         [supplierIndex |-> i, customerIndex |-> j],
                         balancedProblem.suppliers, balancedProblem.customers)
         /\ entering' = <<i, j>>
  /\ transportationPlan' = newPlan'
  /\ pc' = "improved"
  /\ UNCHANGED <<duals, optimality, home>>
  /\ UNCHANGED <<problem, balancedProblem, transportationCosts, profitMatrix,
                 remainingSupply, remainingDemand,
                 allocationStep, iterations, isOptimal, results, optimalRoutes>>

\* improveSolution called for the entering cell (i, j)
ImproveCall ==
  /\ pc = "improve"
  /\ \E i \in 1..Len(balancedProblem.suppliers) :
       \E j \in 1..Len(balancedProblem.customers) :
         /\ newPlan' = improveSolution(transportationPlan,
                         [supplierIndex |-> i, customerIndex |-> j],
                         balancedProblem.suppliers, balancedProblem.customers)
         /\ entering' = <<i, j>>
  /\ pc' = "improved"
  /\ UNCHANGED <<duals, optimality, home>>
  /\ UNCHANGED <<problem, balancedProblem, transportationCosts, profitMatrix,
                 transportationPlan, remainingSupply, remainingDemand,
                 allocationStep, iterations, isOptimal, results, optimalRoutes>>

NextImprove ==
  \/ Next
  \/ ImproveCall

\* the solver's runs, and improveSolution on every plan within the caps
SpecImprove == (Init \/ InitImprove) /\ [][NextImprove]_vars

\* ------------------- calculateDualVariables and checkOptimality on their own
\* checkOptimality reads the profit matrix and the plan: problems of every
\* cost format, so that the profits are not a price less a purchase cost only
CheckInputs == Problems

\* a balanced problem with its profit matrix and any plan within its caps
InitCheck ==
  /\ problem \in CheckInputs
  /\ pc = "test"
  /\ balancedProblem = balanceProblem(problem.suppliers, problem.customers)
  /\ transportationCosts =
       validateTransportationCosts(problem.transportationCosts,
         Len(balancedProblem.suppliers), Len(balancedProblem.customers))
  /\ profitMatrix = calculateProfitMatrix(balancedProblem.suppliers,
                      balancedProblem.customers, transportationCosts)
  /\ transportationPlan \in
       CappedPlans(balancedProblem.suppliers, balancedProblem.customers)
  /\ newPlan = <<>>
  /\ remainingSupply = <<>>
  /\ remainingDemand = <<>>
  /\ allocationStep = 0
  /\ iterations = 0
  /\ isOptimal = FALSE
  /\ results = <<>>
  /\ optimalRoutes = <<>>
  /\ duals = <<>>
  /\ optimality = <<>>
  /\ entering = <<>>
  /\ home = HomeStart

\* calculateDualVariables called as checkOptimality calls it
DualCall ==
  /\ pc = "test"
  /\ duals' = calculateDualVariables(profitMatrix, transportationPlan,
                Len(balancedProblem.suppliers), Len(balancedProblem.customers))
  /\ pc' = "dualsReturned"
  /\ UNCHANGED <<optimality, entering, home>>
  /\ UNCHANGED <<problem, balancedProblem, transportationCosts, profitMatrix,
                 transportationPlan, newPlan, remainingSupply, remainingDemand,
                 allocationStep, iterations, isOptimal, results, optimalRoutes>>

\* checkOptimality called on the profit matrix and the plan
CheckCall ==
  /\ pc = "test"
  /\ optimality' = checkOptimality(profitMatrix, transportationPlan,
                     balancedProblem.suppliers, balancedProblem.customers)
  /\ pc' = "checked"
  /\ UNCHANGED <<duals, entering, home>>
  /\ UNCHANGED <<problem, balancedProblem, transportationCosts, profitMatrix,
                 transportationPlan, newPlan, remainingSupply, remainingDemand,
                 allocationStep, iterations, isOptimal, results, optimalRoutes>>

NextCalls ==
  \/ ImproveCall
  \/ DualCall
  \/ CheckCall

\* the three functions of the improvement loop, each called on every plan
\* within the caps
SpecCalls == (InitImprove \/ InitCheck) /\ [][NextCalls]_vars

\* ------------------------------------- solveMiddlemanProblem as one call
\* one pass of the improvement loop on explicit arguments:
\* [plan, newPlan, isOptimal, iterations, exit]
SolverPass(Z, suppliers, customers, plan, n) ==
  ApplyTo(LAMBDA optimalityCheck :
            IF ~optimalityCheck.isOptimal /\ Len(optimalityCheck.improvements) > 0
            THEN ApplyTo(LAMBDA returned : LoopAccept(plan, n, returned),
                         improveSolution(plan, optimalityCheck.improvements[1],
                                         suppliers, customers))
            ELSE IF ~optimalityCheck.isOptimal
            THEN [plan |-> plan, newPlan |-> <<>>, isOptimal |-> FALSE,
                  iterations |-> n, exit |-> TRUE]
            ELSE [plan |-> plan, newPlan |-> <<>>, isOptimal |-> TRUE,
                  iterations |-> n + 1, exit |-> FALSE],
          checkOptimality(Z, plan, suppliers, customers))

\* while (!isOptimal && iterations < maxIterations), left early by a break
RECURSIVE SolverLoop(_, _, _, _)
SolverLoop(Z, suppliers, customers, st) ==
  IF ~st.exit /\ LoopCondition(st.isOptimal, st.iterations)
  THEN ApplyTo(LAMBDA after : SolverLoop(Z, suppliers, customers, after),
               SolverPass(Z, suppliers, customers, st.plan, st.iterations))
  ELSE st

\* the returned MiddlemanSolution (algorithm is a fixed text and executionTime
\* a clock reading: neither is kept)
SolutionFrom(balanced, costs, Z, final) ==
  ApplyTo(LAMBDA totals :
            [profitMatrix |-> Z,
             transportationPlan |-> final.plan,
             isBalanced |-> balanced.isBalanced,
             isFeasible |-> TRUE,
             isOptimal |-> final.isOptimal,
             totalPurchaseCost |-> totals.totalPurchaseCost,
             totalTransportationCost |-> totals.totalTransportationCost,
             totalRevenue |-> totals.totalRevenue,
             totalProfit |-> totals.totalProfit,
             optimalRoutes |-> createOptimalRoutes(final.plan, balanced.suppliers,
                                 balanced.customers, costs, Z),
             iterations |-> final.iterations],
          calculateResults(final.plan, balanced.suppliers, balanced.customers, costs))

\* steps 4 to 8 on the balanced problem
SolveBalanced(balanced, costs, Z) ==
  ApplyTo(LAMBDA initial :
            ApplyTo(LAMBDA final : SolutionFrom(balanced, costs, Z, final),
                    ApplyTo(LAMBDA st : SolverLoop(Z, balanced.suppliers,
                                                   balanced.customers, st),
                      [plan |-> initial, newPlan |-> <<>>,
                       isOptimal |-> checkOptimality(Z, initial, balanced.suppliers,
                                                     balanced.customers).isOptimal,
                       iterations |-> 0, exit |-> FALSE])),
          findOptimalTransportation(Z, balanced.suppliers, balanced.customers))

\* what solveMiddlemanProblem returns for a problem it does not reject
solveMiddlemanProblem(p) ==
  ApplyTo(LAMBDA balanced :
            ApplyTo(LAMBDA costs :
                      ApplyTo(LAMBDA Z : SolveBalanced(balanced, costs, Z),
                              calculateProfitMatrix(balanced.suppliers,
                                                    balanced.customers, costs)),
                    validateTransportationCosts(p.transportationCosts,
                      Len(balanced.suppliers), Len(balanced.customers))),
          balanceProblem(p.suppliers, p.customers))

\* ------------------------------------------------------ the page's inputs
mediumExample ==
  [suppliers |-> <<[id |-> SupplierId(1), supply |-> 100, purchaseCost |-> 15],
                   [id |-> SupplierId(2), supply |-> 120, purchaseCost |-> 12],
                   [id |-> SupplierId(3), supply |-> 80, purchaseCost |-> 18]>>,
   customers |-> <<[id |-> CustomerId(1), demand |-> 90, sellingPrice |-> 35],
                   [id |-> CustomerId(2), demand |-> 110, sellingPrice |-> 40],
                   [id |-> CustomerId(3), demand |-> 70, sellingPrice |-> 45]>>,
   transportationCosts |->
     [kind |-> "object",
      rows |-> <<(<< <<5>>, <<8>>, <<6>> >>),
                 (<< <<7>>, <<3>>, <<9>> >>),
                 (<< <<4>>, <<6>>, <<2>> >>)>>]]

\* what a user can type into the forms (the name field is not modelled); a
\* quantity of 0 is typed but refused
SupplierEntries == [supply : 0..MaxQty, purchaseCost : 0..MaxCost]

CustomerEntries == [demand : 0..MaxQty, sellingPrice : 0..MaxPrice]

\* the matrices TransportationCostMatrix hands to onChange for m suppliers and
\* n customers when the user presses a "Set All to v" quick action, types w
\* into at most one cell and saves
CostEntries(m, n) ==
  {[i \in 1..m |-> [j \in 1..n |-> IF <<i, j>> = c THEN <<w>> ELSE <<v>>]] :
     v \in 0..MaxTransport, w \in 0..MaxTransport, c \in (1..m) \X (1..n)}

\* faulty variant: the form lets a supply of 0 through
validateSupplier_AllowsZeroSupply(data) ==
  /\ data.supply >= 0
  /\ data.supply <= formLimit
  /\ data.purchaseCost >= 0
  /\ data.purchaseCost <= formLimit

\* isValid of validateSupplier and of validateCustomer
validateSupplier(data) ==
  /\ data.supply > 0
  /\ data.supply <= formLimit
  /\ data.purchaseCost >= 0
  /\ data.purchaseCost <= formLimit

validateCustomer(data) ==
  /\ data.demand > 0
  /\ data.demand <= formLimit
  /\ data.sellingPrice >= 0
  /\ data.sellingPrice <= formLimit

\* generateId: an id no member of the list has (the lowest free number stands
\* for the random text)
GeneratedId(n) == <<"generated", n>>

FreshId(list) ==
  GeneratedId(CHOOSE n \in 1..(Len(list) + 1) :
    /\ \A k \in 1..Len(list) : list[k].id # GeneratedId(n)
    /\ \A q \in 1..(n - 1) : \E k \in 1..Len(list) : list[k].id = GeneratedId(q))

\* the problem handleCalculate builds from the state
PageProblem(h) ==
  [suppliers |-> h.suppliers,
   customers |-> h.customers,
   transportationCosts |-> [kind |-> "object", rows |-> h.transportationCosts]]

isReadyToCalculate(h) ==
  /\ Len(h.suppliers) > 0
  /\ Len(h.customers) > 0
  /\ Len(h.transportationCosts) > 0
  /\ Len(h.transportationCosts[1]) > 0

\* ---------------------------------------------------- the page's handlers
handleAddSupplier(h, supplier) ==
  IF h.editingSupplier # <<>>
  THEN [h EXCEPT !.suppliers = [i \in 1..Len(@) |->
                                  IF @[i].id = supplier.id THEN supplier ELSE @[i]],
                 !.editingSupplier = <<>>,
                 !.showSupplierForm = FALSE,
                 !.solution = <<>>]
  ELSE [h EXCEPT !.suppliers = Append(@, supplier),
                 !.showSupplierForm = FALSE,
                 !.solution = <<>>]

handleEditSupplier(h, supplier) ==
  [h EXCEPT !.editingSupplier = <<supplier>>, !.showSupplierForm = TRUE]

\* faulty variant: the solution is not cleared
handleDeleteSupplier_KeepsSolution(h, supplierId) ==
  [h EXCEPT !.suppliers = SelectSeq(@, LAMBDA s : s.id # supplierId)]

handleDeleteSupplier(h, supplierId) ==
  [h EXCEPT !.suppliers = SelectSeq(@, LAMBDA s : s.id # supplierId),
            !.solution = <<>>]

handleAddCustomer(h, customer) ==
  IF h.editingCustomer # <<>>
  THEN [h EXCEPT !.customers = [j \in 1..Len(@) |->
                                  IF @[j].id = customer.id THEN customer ELSE @[j]],
                 !.editingCustomer = <<>>,
                 !.showCustomerForm = FALSE,
                 !.solution = <<>>]
  ELSE [h EXCEPT !.customers = Append(@, customer),
                 !.showCustomerForm = FALSE,
                 !.solution = <<>>]

handleEditCustomer(h, customer) ==
  [h EXCEPT !.editingCustomer = <<customer>>, !.showCustomerForm = TRUE]

handleDeleteCustomer(h, customerId) ==
  [h EXCEPT !.customers = SelectSeq(@, LAMBDA c : c.id # customerId),
            !.solution = <<>>]

handleCancelForm(h) ==
  [h EXCEPT !.showSupplierForm = FALSE,
            !.showCustomerForm = FALSE,
            !.editingSupplier = <<>>,
            !.editingCustomer = <<>>]

handleTransportationCostsChange(h, costs) ==
  [h EXCEPT !.transportationCosts = costs, !.solution = <<>>]

\* the part of handleCalculate that runs in the click: the flag, the error,
\* and the timer holding the problem built from the state of this render
handleCalculate(h) ==
  [h EXCEPT !.isCalculating = TRUE,
            !.error = <<>>,
            !.timeout = <<PageProblem(h)>>]

handleLoadExample(h, example) ==
  LET exampleData == IF example = "small" THEN smallExample ELSE mediumExample
  IN [h EXCEPT !.suppliers = exampleData.suppliers,
               !.customers = exampleData.customers,
               !.transportationCosts = exampleData.transportationCosts.rows,
               !.solution = <<>>,
               !.error = <<>>]

handleReset(h) ==
  [h EXCEPT !.suppliers = <<>>,
            !.customers = <<>>,
            !.transportationCosts = <<>>,
            !.solution = <<>>,
            !.error = <<>>,
            !.showSupplierForm = FALSE,
            !.showCustomerForm = FALSE,
            !.editingSupplier = <<>>,
            !.editingCustomer = <<>>]

\* --------------------------------------------------------- the page's steps
\* everything but the page's state
solverVars == <<problem, pc, balancedProblem, transportationCosts, profitMatrix,
                transportationPlan, newPlan, remainingSupply, remainingDemand,
                allocationStep, iterations, isOptimal, results, optimalRoutes,
                duals, optimality, entering>>

InitPage ==
  /\ pc = "page"
  /\ home = HomeStart
  /\ problem = <<>>
  /\ balancedProblem = <<>>
  /\ transportationCosts = <<>>
  /\ profitMatrix = <<>>
  /\ transportationPlan = <<>>
  /\ newPlan = <<>>
  /\ remainingSupply = <<>>
  /\ remainingDemand = <<>>
  /\ allocationStep = 0
  /\ iterations = 0
  /\ isOptimal = FALSE
  /\ results = <<>>
  /\ optimalRoutes = <<>>
  /\ duals = <<>>
  /\ optimality = <<>>
  /\ entering = <<>>

\* a user event can still be handled
UserEvent == pc = "page" /\ home.events < MaxEvents

\* the state after a user event
Handled(h) == [h EXCEPT !.events = @ + 1]

\* the controls DataSummary and TransportationCostMatrix are disabled
ListsDisabled ==
  home.showSupplierForm \/ home.showCustomerForm \/ home.isCalculating

\* the Add Supplier button
ShowSupplierForm ==
  /\ UserEvent
  /\ ~ListsDisabled
  /\ home' = Handled([home EXCEPT !.showSupplierForm = TRUE])
  /\ UNCHANGED solverVars

\* the submit button of SupplierForm: handleSubmit validates, builds the
\* Supplier and calls onSubmit
SubmitSupplier ==
  /\ UserEvent
  /\ home.showSupplierForm
  /\ ~home.isCalculating
  /\ home.editingSupplier # <<>> \/ Len(home.suppliers) < MaxSuppliers
  /\ \E data \in SupplierEntries :
       /\ validateSupplier(data)
       /\ home' = Handled(handleAddSupplier(home,
            [id |-> IF home.editingSupplier # <<>>
                    THEN home.editingSupplier[1].id ELSE FreshId(home.suppliers),
             supply |-> data.supply,
             purchaseCost |-> data.purchaseCost]))
  /\ UNCHANGED solverVars

EditSupplier ==
  /\ UserEvent
  /\ ~ListsDisabled
  /\ \E k \in 1..Len(home.suppliers) :
       home' = Handled(handleEditSupplier(home, home.suppliers[k]))
  /\ UNCHANGED solverVars

DeleteSupplier ==
  /\ UserEvent
  /\ ~ListsDisabled
  /\ \E k \in 1..Len(home.suppliers) :
       home' = Handled(handleDeleteSupplier(home, home.suppliers[k].id))
  /\ UNCHANGED solverVars

\* the Add Customer button
ShowCustomerForm ==
  /\ UserEvent
  /\ ~ListsDisabled
  /\ home' = Handled([home EXCEPT !.showCustomerForm = TRUE])
  /\ UNCHANGED solverVars

SubmitCustomer ==
  /\ UserEvent
  /\ home.showCustomerForm
  /\ ~home.isCalculating
  /\ home.editingCustomer # <<>> \/ Len(home.customers) < MaxCustomers
  /\ \E data \in CustomerEntries :
       /\ validateCustomer(data)
       /\ home' = Handled(handleAddCustomer(home,
            [id |-> IF home.editingCustomer # <<>>
                    THEN home.editingCustomer[1].id ELSE FreshId(home.customers),
             demand |-> data.demand,
             sellingPrice |-> data.sellingPrice]))
  /\ UNCHANGED solverVars

EditCustomer ==
  /\ UserEvent
  /\ ~ListsDisabled
  /\ \E k \in 1..Len(home.customers) :
       home' = Handled(handleEditCustomer(home, home.customers[k]))
  /\ UNCHANGED solverVars

DeleteCustomer ==
  /\ UserEvent
  /\ ~ListsDisabled
  /\ \E k \in 1..Len(home.customers) :
       home' = Handled(handleDeleteCustomer(home, home.customers[k].id))
  /\ UNCHANGED solverVars

\* the Cancel button of either form: not disabled while calculating
CancelForm ==
  /\ UserEvent
  /\ home.showSupplierForm \/ home.showCustomerForm
  /\ home' = Handled(handleCancelForm(home))
  /\ UNCHANGED solverVars

\* the Save button of TransportationCostMatrix
SaveCosts ==
  /\ UserEvent
  /\ Len(home.suppliers) > 0
  /\ Len(home.customers) > 0
  /\ ~ListsDisabled
  /\ \E costs \in CostEntries(Len(home.suppliers), Len(home.customers)) :
       home' = Handled(handleTransportationCostsChange(home, costs))
  /\ UNCHANGED solverVars

LoadExample ==
  /\ UserEvent
  /\ ~home.isCalculating
  /\ \E example \in {"small", "medium"} :
       home' = Handled(handleLoadExample(home, example))
  /\ UNCHANGED solverVars

Reset ==
  /\ UserEvent
  /\ ~home.isCalculating
  /\ home' = Handled(handleReset(home))
  /\ UNCHANGED solverVars

\* the Calculate button: shown when isReadyToCalculate, disabled while
\* calculating
Calculate ==
  /\ UserEvent
  /\ isReadyToCalculate(home)
  /\ ~home.isCalculating
  /\ home' = Handled(handleCalculate(home))
  /\ UNCHANGED solverVars

\* the timer fires: the callback runs the solver on the problem it holds.  When
\* the solver returns, the promise resolves and the rest of handleCalculate
\* runs (setSolution, then finally setIsCalculating(false)).  When the solver
\* throws, the exception leaves the callback: the promise never settles and
\* neither catch nor finally runs.
TimeoutCallback ==
  /\ pc = "page"
  /\ home.timeout # <<>>
  /\ IF validateProblem(home.timeout[1])
     THEN \E result \in {solveMiddlemanProblem(home.timeout[1])} :
            home' = [home EXCEPT !.timeout = <<>>,
                                 !.solution = <<result>>,
                                 !.isCalculating = FALSE]
     ELSE home' = [home EXCEPT !.timeout = <<>>]
  /\ UNCHANGED solverVars

NextPage ==
  \/ ShowSupplierForm
  \/ SubmitSupplier
  \/ EditSupplier
  \/ DeleteSupplier
  \/ ShowCustomerForm
  \/ SubmitCustomer
  \/ EditCustomer
  \/ DeleteCustomer
  \/ CancelForm
  \/ SaveCosts
  \/ LoadExample
  \/ Reset
  \/ Calculate
  \/ TimeoutCallback

SpecPage == InitPage /\ [][NextPage]_vars

\* a timer that was set fires
FairSpecPage == SpecPage /\ WF_vars(TimeoutCallback)

\* ------------------------------------------------------------ properties
Returned == pc = "done"

Suppliers == balancedProblem.suppliers

Customers == balancedProblem.customers

RealSupplierRows == {i \in 1..Len(Suppliers) : Suppliers[i].id # FictitiousSupplierId}

RealCustomerCols == {j \in 1..Len(Customers) : Customers[j].id # FictitiousCustomerId}

\* total profit of plan X under profit matrix Z
PlanProfit(Z, X) ==
  SumSeq([i \in 1..Len(X) |-> SumSeq([j \in 1..Len(X[i]) |-> Z[i][j] * X[i][j]])])

NonNegative(X) == \A i \in 1..Len(X) : \A j \in 1..Len(X[i]) : X[i][j] >= 0

\* every non-negative plan of the suppliers and customers whose rows use the
\* supplies and whose columns meet the demands exactly
FeasiblePlans(sup, cus) ==
  {X \in [1..Len(sup) -> [1..Len(cus) -> 0..MaxQty]] :
     /\ \A i \in 1..Len(sup) : RowSum(X, i) = sup[i].supply
     /\ \A j \in 1..Len(cus) : ColSum(X, j) = cus[j].demand}

\* C1: the returned plan uses every supply and meets every demand of the
\* balanced lists exactly (fictitious node included)
C1_PlanMeetsSupplyAndDemand ==
  Returned =>
    /\ \A i \in 1..Len(Suppliers) :
         RowSum(transportationPlan, i) = Suppliers[i].supply
    /\ \A j \in 1..Len(Customers) :
         ColSum(transportationPlan, j) = Customers[j].demand

C1_Witness ==
  /\ Returned
  /\ ~balancedProblem.isBalanced
  /\ Len(Suppliers) + Len(Customers) >= 4
  /\ \E i \in 1..Len(Suppliers) :
       Cardinality({j \in 1..Len(Customers) : transportationPlan[i][j] > 0}) >= 2

\* C3: a returned isOptimal = true means the returned plan has the largest
\* total profit of all feasible plans of the balanced problem
C3_OptimalFlagMeansOptimalPlan ==
  (Returned /\ isOptimal /\ problem \in Problems) =>
    \A X \in FeasiblePlans(Suppliers, Customers) :
      PlanProfit(profitMatrix, X) <= PlanProfit(profitMatrix, transportationPlan)

\* C4 as stated: the optimality test finds no improvement in the returned
\* plan, whatever made the controller stop
C4_ReturnedPlanHasNoImprovement ==
  Returned =>
    checkOptimality(profitMatrix, transportationPlan, Suppliers, Customers)
      .improvements = <<>>

\* C4 as amended: when the returned isOptimal is true, the optimality test
\* finds no improvement in the returned plan
C4_OptimalFlagHasNoImprovement ==
  (Returned /\ isOptimal) =>
    \A i \in 1..Len(Suppliers) : \A j \in 1..Len(Customers) :
      ~GreaterThanEpsilon(transportationPlan[i][j]) =>
        ~GreaterThanEpsilon(
           profitMatrix[i][j]
           - calculateDualVariables(profitMatrix, transportationPlan,
               Len(Suppliers), Len(Customers)).alpha[i]
           - calculateDualVariables(profitMatrix, transportationPlan,
               Len(Suppliers), Len(Customers)).beta[j])

C4_Witness ==
  /\ Returned
  /\ isOptimal
  /\ Len(Suppliers) + Len(Customers) >= 4
  /\ \E i \in 1..Len(Suppliers) : \E j \in 1..Len(Customers) :
       transportationPlan[i][j] = 0 /\ profitMatrix[i][j] > 0

\* C5: for every valid problem the controller always reaches DONE, and the
\* iteration counter stays between 0 and 20
C5_ControllerTerminates ==
  /\ validateProblem(problem) => <>Returned
  /\ [](iterations \in 0..maxIterations)

C5_Witness ==
  /\ Returned
  /\ ~isOptimal
  /\ iterations \in 0..maxIterations

\* the flow between real suppliers and real customers only
RealFlow(X, i, j) ==
  IF i \in RealSupplierRows /\ j \in RealCustomerCols THEN X[i][j] ELSE 0

\* C6 as stated: none of the three totals counts a flow that touches the
\* fictitious supplier or the fictitious customer
C6_TotalsExcludeFictitiousFlows ==
  Returned =>
    /\ results.totalRevenue =
         SumSeq([i \in 1..Len(Suppliers) |->
           SumSeq([j \in 1..Len(Customers) |->
             Customers[j].sellingPrice * RealFlow(transportationPlan, i, j)])])
    /\ results.totalPurchaseCost =
         SumSeq([i \in 1..Len(Suppliers) |->
           SumSeq([j \in 1..Len(Customers) |->
             Suppliers[i].purchaseCost * RealFlow(transportationPlan, i, j)])])
    /\ results.totalTransportationCost =
         SumSeq([i \in 1..Len(Suppliers) |->
           SumSeq([j \in 1..Len(Customers) |->
             transportationCosts[i][j] * RealFlow(transportationPlan, i, j)])])

\* the cell a route names, from the ids it carries (<<0, 0>> ids: fictitious)
RouteCell(r) == <<r.supplierId[2], r.customerId[2]>>

\* C7: the route list holds, in row-major order, exactly the cells with
\* positive flow between a real supplier and a real customer, each with the
\* quantity of the plan and the unit profit of the profit matrix
C7_RoutesAreRealPositiveCells ==
  Returned =>
    /\ \A k \in 1..Len(optimalRoutes) :
         /\ RouteCell(optimalRoutes[k])[1] \in RealSupplierRows
         /\ RouteCell(optimalRoutes[k])[2] \in RealCustomerCols
         /\ optimalRoutes[k].supplierId = Suppliers[RouteCell(optimalRoutes[k])[1]].id
         /\ optimalRoutes[k].customerId = Customers[RouteCell(optimalRoutes[k])[2]].id
         /\ optimalRoutes[k].quantity > 0
         /\ optimalRoutes[k].quantity =
              transportationPlan[RouteCell(optimalRoutes[k])[1]]
                                [RouteCell(optimalRoutes[k])[2]]
         /\ optimalRoutes[k].unitProfit =
              profitMatrix[RouteCell(optimalRoutes[k])[1]]
                          [RouteCell(optimalRoutes[k])[2]]
    /\ \A k \in 1..Len(optimalRoutes) : \A l \in 1..Len(optimalRoutes) :
         k < l =>
           \/ RouteCell(optimalRoutes[k])[1] < RouteCell(optimalRoutes[l])[1]
           \/ /\ RouteCell(optimalRoutes[k])[1] = RouteCell(optimalRoutes[l])[1]
              /\ RouteCell(optimalRoutes[k])[2] < RouteCell(optimalRoutes[l])[2]
    /\ \A i \in RealSupplierRows : \A j \in RealCustomerCols :
         transportationPlan[i][j] > 0 =>
           \E k \in 1..Len(optimalRoutes) : RouteCell(optimalRoutes[k]) = <<i, j>>

C7_Witness ==
  /\ Returned
  /\ Len(optimalRoutes) >= 2
  /\ Len(optimalRoutes) <
       Cardinality({c \in (1..Len(Suppliers)) \X (1..Len(Customers)) :
                      transportationPlan[c[1]][c[2]] > 0})
  /\ \E i \in RealSupplierRows : \E j \in RealCustomerCols :
       transportationPlan[i][j] = 0

\* C8: purchase and transport totals count the flows between real suppliers
\* and real customers; revenue counts every flow into a real customer, the
\* fictitious supplier's included; profit is revenue minus the two costs
C8_ResultsFormula ==
  Returned =>
    /\ results.totalPurchaseCost =
         SumSeq([i \in 1..Len(Suppliers) |->
           SumSeq([j \in 1..Len(Customers) |->
             Suppliers[i].purchaseCost * RealFlow(transportationPlan, i, j)])])
    /\ results.totalTransportationCost =
         SumSeq([i \in 1..Len(Suppliers) |->
           SumSeq([j \in 1..Len(Customers) |->
             transportationCosts[i][j] * RealFlow(transportationPlan, i, j)])])
    /\ results.totalRevenue =
         SumSeq([j \in 1..Len(Customers) |->
           IF j \in RealCustomerCols
           THEN Customers[j].sellingPrice * ColSum(transportationPlan, j)
           ELSE 0])
    /\ results.totalProfit =
         results.totalRevenue - results.totalPurchaseCost
           - results.totalTransportationCost

C8_Witness ==
  /\ Returned
  /\ \E i \in 1..Len(Suppliers) : \E j \in RealCustomerCols :
       /\ i \notin RealSupplierRows
       /\ transportationPlan[i][j] > 0
       /\ Customers[j].sellingPrice > 0
  /\ results.totalPurchaseCost > 0
  /\ results.totalTransportationCost > 0

\* C9: every cell of the profit matrix is selling price - purchase cost -
\* transport cost of the lists it was built from; the small example with
\* costs [[2,4],[3,1]] gives [[10,13],[7,14]]
C9_ProfitMatrixFormula ==
  /\ pc \notin {"start", "error", "costs", "profit"} =>
       /\ Len(profitMatrix) = Len(Suppliers)
       /\ \A i \in 1..Len(Suppliers) :
            /\ Len(profitMatrix[i]) = Len(Customers)
            /\ \A j \in 1..Len(Customers) :
                 profitMatrix[i][j] =
                   Customers[j].sellingPrice - Suppliers[i].purchaseCost
                     - transportationCosts[i][j]
  /\ (pc \notin {"start", "error", "costs", "profit"} /\ problem = smallExample) =>
       /\ <<profitMatrix[1][1], profitMatrix[1][2]>> = <<10, 13>>
       /\ <<profitMatrix[2][1], profitMatrix[2][2]>> = <<7, 14>>
  /\ calculateProfitMatrix(smallExample.suppliers, smallExample.customers,
                           <<(<<2, 4>>), (<<3, 1>>)>>)
       = <<(<<10, 13>>), (<<7, 14>>)>>

C9_Witness ==
  /\ pc = "initial"
  /\ problem # smallExample
  /\ \E i \in 1..Len(Suppliers) : \E j \in 1..Len(Customers) :
       /\ transportationCosts[i][j] > 0
       /\ Suppliers[i].purchaseCost > 0
       /\ Customers[j].sellingPrice > 0
       /\ profitMatrix[i][j] < 0

\* totals of the lists handed to balanceProblem
GivenSupply == SumSeq([i \in 1..Len(problem.suppliers) |-> problem.suppliers[i].supply])

GivenDemand == SumSeq([j \in 1..Len(problem.customers) |-> problem.customers[j].demand])

\* C10: when the totals differ, balanceProblem appends exactly one fictitious
\* node (a customer with the excess supply and price 0, or a supplier with
\* the excess demand and cost 0), never both; the returned lists have equal
\* totals and isBalanced is false
C10_BalanceAddsOneFictitiousNode ==
  (pc \notin {"start", "error"} /\ GivenSupply # GivenDemand) =>
    /\ GivenSupply > GivenDemand =>
         /\ Customers = Append(problem.customers,
              [id |-> FictitiousCustomerId,
               demand |-> GivenSupply - GivenDemand, sellingPrice |-> 0])
         /\ Suppliers = problem.suppliers
         /\ balancedProblem.fictitiousSupplier = <<>>
         /\ balancedProblem.fictitiousCustomer = <<Customers[Len(Customers)]>>
    /\ GivenDemand > GivenSupply =>
         /\ Suppliers = Append(problem.suppliers,
              [id |-> FictitiousSupplierId,
               supply |-> GivenDemand - GivenSupply, purchaseCost |-> 0])
         /\ Customers = problem.customers
         /\ balancedProblem.fictitiousCustomer = <<>>
         /\ balancedProblem.fictitiousSupplier = <<Suppliers[Len(Suppliers)]>>
    /\ SumSeq([i \in 1..Len(Suppliers) |-> Suppliers[i].supply])
         = SumSeq([j \in 1..Len(Customers) |-> Customers[j].demand])
    /\ balancedProblem.isBalanced = FALSE

C10_Witness ==
  /\ pc = "costs"
  /\ GivenDemand > GivenSupply + 1
  /\ Len(problem.suppliers) = 2
  /\ Len(Suppliers) = 3

\* X is non-negative and within the supplies and demands of the balanced lists
WithinCaps(X) ==
  /\ NonNegative(X)
  /\ \A i \in 1..Len(X) : RowSum(X, i) <= Suppliers[i].supply
  /\ \A j \in 1..Len(Customers) : ColSum(X, j) <= Customers[j].demand

\* C2: every plan the controller holds is non-negative and within the
\* supplies and demands, and improveSolution turns any such plan into
\* another such plan
C2_PlansStayWithinCaps ==
  /\ transportationPlan # <<>> => WithinCaps(transportationPlan)
  /\ newPlan # <<>> => WithinCaps(newPlan)

C2_Witness ==
  /\ pc = "improved"
  /\ \E i \in 1..Len(Suppliers) : \E j \in 1..Len(Customers) :
       \E k \in 1..Len(Customers) :
         /\ newPlan[i][j] = transportationPlan[i][j] + 1
         /\ newPlan[i][k] = transportationPlan[i][k] - 1
         /\ RowSum(newPlan, i) = Suppliers[i].supply
         /\ ColSum(newPlan, j) = Customers[j].demand

\* C11: equal totals get no fictitious node and isBalanced = true; balancing
\* the lists balanceProblem returned gives the same lists with isBalanced = true
C11_BalancedInputStaysAsIs ==
  pc \notin {"start", "error"} =>
    /\ GivenSupply = GivenDemand =>
         /\ Suppliers = problem.suppliers
         /\ Customers = problem.customers
         /\ balancedProblem.isBalanced = TRUE
         /\ balancedProblem.fictitiousSupplier = <<>>
         /\ balancedProblem.fictitiousCustomer = <<>>
    /\ balanceProblem(Suppliers, Customers).suppliers = Suppliers
    /\ balanceProblem(Suppliers, Customers).customers = Customers
    /\ balanceProblem(Suppliers, Customers).isBalanced = TRUE
    /\ balanceProblem(Suppliers, Customers).fictitiousSupplier = <<>>
    /\ balanceProblem(Suppliers, Customers).fictitiousCustomer = <<>>

C11_Witness ==
  /\ pc = "costs"
  /\ GivenSupply = GivenDemand
  /\ Len(problem.suppliers) = 2
  /\ Len(problem.customers) = 2
  /\ problem.suppliers[1].supply # problem.customers[1].demand
  /\ balancedProblem.isBalanced

\* the ids of a list of suppliers or customers that are a fictitious node's
FictitiousPositions(list) ==
  {k \in 1..Len(list) : list[k].id \in {FictitiousSupplierId, FictitiousCustomerId}}

\* C12: balanceProblem leaves the lists it was given as they were, and the
\* lists it returns start with the given entries in the given order, a
\* fictitious node coming last only
C12_BalanceKeepsItsInputs ==
  /\ [][(pc = "start" /\ pc' = "costs") =>
          /\ problem' = problem
          /\ SubSeq(Suppliers', 1, Len(problem.suppliers)) = problem.suppliers
          /\ SubSeq(Customers', 1, Len(problem.customers)) = problem.customers
          /\ Len(Suppliers') <= Len(problem.suppliers) + 1
          /\ Len(Customers') <= Len(problem.customers) + 1
          /\ FictitiousPositions(Suppliers') \subseteq {Len(problem.suppliers) + 1}
          /\ FictitiousPositions(Customers') \subseteq {Len(problem.customers) + 1}]_vars
  /\ [][problem' = problem]_vars

C12_Witness ==
  /\ pc = "costs"
  /\ Len(problem.suppliers) = 2
  /\ Len(Suppliers) = 3
  /\ FictitiousPositions(Suppliers) = {3}
  /\ SubSeq(Suppliers, 1, 2) = problem.suppliers

\* C15: a problem with an empty list, a supply or demand that is zero or
\* negative, or a negative cost or price ends in the error, and none of the
\* later steps has run for it: nothing is balanced, computed or returned
C15_InvalidProblemFailsFirst ==
  (\/ Len(problem.suppliers) = 0
   \/ Len(problem.customers) = 0
   \/ \E i \in 1..Len(problem.suppliers) :
        problem.suppliers[i].supply <= 0 \/ problem.suppliers[i].purchaseCost < 0
   \/ \E j \in 1..Len(problem.customers) :
        problem.customers[j].demand <= 0 \/ problem.customers[j].sellingPrice < 0)
  => /\ pc \in {"start", "error"}
     /\ balancedProblem = <<>>
     /\ transportationCosts = <<>>
     /\ profitMatrix = <<>>
     /\ transportationPlan = <<>>
     /\ results = <<>>
     /\ optimalRoutes = <<>>
     /\ ~isOptimal
     /\ ENABLED Next => ENABLED Reject

C15_Witness ==
  /\ pc = "error"
  /\ Len(problem.suppliers) = 2
  /\ Len(problem.customers) = 2
  /\ problem.suppliers[1].supply > 0
  /\ problem.suppliers[2].supply = 0
  /\ \A j \in 1..2 : problem.customers[j].demand > 0 /\ problem.customers[j].sellingPrice > 0
  /\ \A i \in 1..2 : problem.suppliers[i].purchaseCost >= 0

\* the problem gives no cost for cell (i, j): no matrix, no such row, a row
\* too short, or a cell without a cost (a fictitious row or column has none)
MissingCost(i, j) ==
  \/ problem.transportationCosts.kind = "none"
  \/ i > Len(problem.suppliers)
  \/ j > Len(problem.customers)
  \/ i > Len(problem.transportationCosts.rows)
  \/ j > Len(problem.transportationCosts.rows[i])
  \/ problem.transportationCosts.rows[i][j] = <<>>

C16_NonConvergenceReturnsBestPlan ==
  /\ (pc = "results" /\ ~isOptimal) ~> (Returned /\ ~isOptimal)
  /\ [](pc \in {"loop", "results", "routes", "done"} /\ ~isOptimal =>
         PlanProfit(profitMatrix, transportationPlan) >=
           PlanProfit(profitMatrix,
             findOptimalTransportation(profitMatrix, Suppliers, Customers)))
  /\ [][(pc \in {"loop", "results", "routes"}) =>
         (pc' # "error" /\ PlanProfit(profitMatrix', transportationPlan') >=
                             PlanProfit(profitMatrix, transportationPlan))]_vars
  /\ [](Returned /\ ~isOptimal =>
         /\ results.totalProfit =
              results.totalRevenue - results.totalPurchaseCost
                - results.totalTransportationCost
         /\ Len(transportationPlan) = Len(Suppliers))

C16_Witness ==
  /\ Returned
  /\ ~isOptimal
  /\ newPlan = transportationPlan
  /\ PlanProfit(profitMatrix, transportationPlan) > 0
  /\ Len(Suppliers) + Len(Customers) >= 5

\* cell c comes before cell d in the row-major scan
RowMajorBefore(c, d) == c[1] < d[1] \/ (c[1] = d[1] /\ c[2] < d[2])

\* cell c has supply left in its row and demand left in its column
OpenCell(c) == remainingSupply[c[1]] > 0 /\ remainingDemand[c[2]] > 0

\* C18: each allocation step takes, among the cells with supply left in the
\* row and demand left in the column, the one of largest profit (the first
\* in row-major order among equals), gives it min(remaining supply,
\* remaining demand) and lowers both by that amount; in the small example the
\* first allocation is 60 units on S2->C2
C18_AllocationTakesFirstLargestCell ==
  /\ [][(pc = "allocate" /\ allocationStep' = allocationStep + 1) =>
          \E c \in (1..Len(Suppliers)) \X (1..Len(Customers)) :
            /\ OpenCell(c)
            /\ \A d \in (1..Len(Suppliers)) \X (1..Len(Customers)) :
                 OpenCell(d) =>
                   /\ profitMatrix[d[1]][d[2]] <= profitMatrix[c[1]][c[2]]
                   /\ profitMatrix[d[1]][d[2]] = profitMatrix[c[1]][c[2]] =>
                        (d = c \/ RowMajorBefore(c, d))
            /\ transportationPlan' =
                 [transportationPlan EXCEPT ![c[1]][c[2]] =
                    Min2(remainingSupply[c[1]], remainingDemand[c[2]])]
            /\ remainingSupply' =
                 [remainingSupply EXCEPT ![c[1]] =
                    @ - Min2(remainingSupply[c[1]], remainingDemand[c[2]])]
            /\ remainingDemand' =
                 [remainingDemand EXCEPT ![c[2]] =
                    @ - Min2(remainingSupply[c[1]], remainingDemand[c[2]])]]_vars
  /\ [][(pc = "allocate" /\ AllocationOpen(remainingSupply, remainingDemand)) =>
          allocationStep' = allocationStep + 1]_vars
  /\ []((problem = smallExample /\ pc = "allocate" /\ allocationStep = 1) =>
          /\ transportationPlan = <<(<<0, 0, 0>>), (<<0, 60, 0>>)>>
          /\ profitMatrix[2][2] = 14
          /\ remainingSupply = <<50, 10>>
          /\ remainingDemand = <<40, 0, 20>>)

C18_Witness ==
  /\ pc = "allocate"
  /\ allocationStep = 2
  /\ \E c \in (1..Len(Suppliers)) \X (1..Len(Customers)) :
       \E d \in (1..Len(Suppliers)) \X (1..Len(Customers)) :
         /\ RowMajorBefore(c, d)
         /\ profitMatrix[c[1]][c[2]] = profitMatrix[d[1]][d[2]]
         /\ transportationPlan[c[1]][c[2]] > 0
         /\ transportationPlan[d[1]][d[2]] > 0
         /\ c[1] # d[1]
         /\ c[2] # d[2]
         /\ \A e \in (1..Len(Suppliers)) \X (1..Len(Customers)) :
              profitMatrix[e[1]][e[2]] <= profitMatrix[c[1]][c[2]]

\* the cells of plan X with a positive quantity
PositiveCells(X) ==
  {c \in (1..Len(X)) \X (1..Len(Customers)) : X[c[1]][c[2]] > 0}

\* C19: the initial solution builder takes at most rows + cols - 1 steps,
\* each step fills a cell that was empty, and so the initial plan has at most
\* rows + cols - 1 positive cells
C19_AllocationStepsBounded ==
  /\ [](pc \in {"allocate", "check"} =>
         /\ allocationStep <= Len(Suppliers) + Len(Customers) - 1
         /\ Cardinality(PositiveCells(transportationPlan)) = allocationStep)
  /\ [][(pc = "allocate" /\ allocationStep' = allocationStep + 1) =>
          \E c \in (1..Len(Suppliers)) \X (1..Len(Customers)) :
            /\ transportationPlan[c[1]][c[2]] = 0
            /\ transportationPlan'[c[1]][c[2]] > 0
            /\ \A d \in (1..Len(Suppliers)) \X (1..Len(Customers)) :
                 d # c => transportationPlan'[d[1]][d[2]] = transportationPlan[d[1]][d[2]]]_vars
  /\ [](pc \in {"loop", "results", "routes", "done"} =>
         Cardinality(PositiveCells(
           findOptimalTransportation(profitMatrix, Suppliers, Customers)))
           <= Len(Suppliers) + Len(Customers) - 1)

C19_Witness ==
  /\ pc = "check"
  /\ Len(Suppliers) + Len(Customers) = 5
  /\ allocationStep = 4
  /\ Cardinality(PositiveCells(transportationPlan)) = 4

\* C20 as stated: whenever the controller hands a plan to the optimality
\* test, the dual variables computed for it satisfy Z[i][j] = alpha[i] +
\* beta[j] on every cell with a positive quantity
C20_DualsFitEveryBasicCell ==
  pc \in {"check", "loop"} =>
    \A i \in 1..Len(Suppliers) : \A j \in 1..Len(Customers) :
      transportationPlan[i][j] > 0 =>
        profitMatrix[i][j] =
          calculateDualVariables(profitMatrix, transportationPlan,
            Len(Suppliers), Len(Customers)).alpha[i]
          + calculateDualVariables(profitMatrix, transportationPlan,
              Len(Suppliers), Len(Customers)).beta[j]

\* ------------------------------------------------ the dual variables (C21)
\* the basic cells of the plan calculateDualVariables was called on
BasicCells ==
  {c \in (1..Len(Suppliers)) \X (1..Len(Customers)) :
     transportationPlan[c[1]][c[2]] > 0}

\* the first row (lowest index) that contains a basic cell
FirstBasicRow == CHOOSE p \in {c[1] : c \in BasicCells} :
                   \A c \in BasicCells : p <= c[1]

\* the rows <<"row", i>> and columns <<"col", j>> joined to the given ones by
\* chains of basic cells that share a row or a column
RECURSIVE ConnectedTo(_)
ConnectedTo(nodes) ==
  LET more == nodes
                \cup {<<"col", c[2]>> : c \in {b \in BasicCells : <<"row", b[1]>> \in nodes}}
                \cup {<<"row", c[1]>> : c \in {b \in BasicCells : <<"col", b[2]>> \in nodes}}
  IN IF more = nodes THEN nodes ELSE ConnectedTo(more)

ConnectedToFirstRow == ConnectedTo({<<"row", FirstBasicRow>>})

\* a cycle: a non-empty set of basic cells each of which has another cell of
\* the set in its row and another in its column
BasicCellsHaveCycle ==
  \E S \in SUBSET BasicCells :
    /\ S # {}
    /\ \A c \in S : (\E d \in S : d[1] = c[1] /\ d[2] # c[2])
    /\ \A c \in S : (\E e \in S : e[2] = c[2] /\ e[1] # c[1])

\* alpha of the first basic row is 0, every row and column not connected to
\* it has 0, and without a basic cell everything is 0
DualsPinnedAndDefaulted ==
  IF BasicCells = {}
  THEN /\ \A i \in 1..Len(Suppliers) : duals.alpha[i] = 0
       /\ \A j \in 1..Len(Customers) : duals.beta[j] = 0
  ELSE /\ duals.alpha[FirstBasicRow] = 0
       /\ \A i \in 1..Len(Suppliers) :
            <<"row", i>> \notin ConnectedToFirstRow => duals.alpha[i] = 0
       /\ \A j \in 1..Len(Customers) :
            <<"col", j>> \notin ConnectedToFirstRow => duals.beta[j] = 0

\* Z[i][j] = alpha[i] + beta[j] on every basic cell connected to the first
\* basic row
DualsFitConnectedCells ==
  BasicCells # {} =>
    \A c \in BasicCells :
      <<"row", c[1]>> \in ConnectedToFirstRow =>
        profitMatrix[c[1]][c[2]] = duals.alpha[c[1]] + duals.beta[c[2]]

Delta(c) ==
  OpportunityCost(profitMatrix,
    calculateDualVariables(profitMatrix, transportationPlan,
                           Len(Suppliers), Len(Customers)), c)

\* the cell of an ImprovementOpportunity
CellOf(opportunity) == <<opportunity.supplierIndex, opportunity.customerIndex>>

\* C22: the improvements are exactly the non-basic cells (X <= epsilon) with
\* Z - alpha - beta > epsilon, each once and with that difference as its
\* improvement, in non-increasing order of improvement; no basic cell is
\* listed; isOptimal is true exactly when the list is empty
C22_ImprovementsAreTheProfitableNonBasicCells ==
  (pc = "checked") =>
    LET imp == optimality.improvements
    IN /\ \A c \in (1..Len(Suppliers)) \X (1..Len(Customers)) :
            (/\ ~GreaterThanEpsilon(transportationPlan[c[1]][c[2]])
             /\ GreaterThanEpsilon(Delta(c)))
              <=> (\E k \in 1..Len(imp) : CellOf(imp[k]) = c)
       /\ \A k \in 1..Len(imp) : \A q \in 1..Len(imp) :
            CellOf(imp[k]) = CellOf(imp[q]) => k = q
       /\ \A k \in 1..Len(imp) : imp[k].improvement = Delta(CellOf(imp[k]))
       /\ \A k \in 1..(Len(imp) - 1) : imp[k].improvement >= imp[k + 1].improvement
       /\ \A k \in 1..Len(imp) : CellOf(imp[k]) \notin BasicCells
       /\ optimality.isOptimal <=> (imp = <<>>)

C22_Witness ==
  /\ pc = "checked"
  /\ Len(optimality.improvements) >= 3
  /\ optimality.improvements[1].improvement > optimality.improvements[3].improvement
  /\ BasicCells # {}
  /\ \E c \in (1..Len(Suppliers)) \X (1..Len(Customers)) :
       c \notin BasicCells /\ ~GreaterThanEpsilon(Delta(c))

\* --------------------------------------------- the improvement step (C23)
\* supply of row i not yet used by plan X, demand of column j not yet met
AvailableSupply(X, i) == Suppliers[i].supply - RowSum(X, i)

UnmetDemand(X, j) == Customers[j].demand - ColSum(X, j)

\* the cells in which two plans of the same shape differ
ChangedCells(X, Y) ==
  {c \in (1..Len(X)) \X (1..Len(X[1])) : X[c[1]][c[2]] # Y[c[1]][c[2]]}

PlanTotal(X) == SumSeq([i \in 1..Len(X) |-> RowSum(X, i)])

\* the columns other than j with positive flow in row i, and the rows other
\* than i with positive flow in column j
OtherColumns(X, i, j) == {k \in 1..Len(Customers) : k # j /\ X[i][k] > 0}

OtherRows(X, i, j) == {k \in 1..Len(Suppliers) : k # i /\ X[k][j] > 0}

First(S) == CHOOSE k \in S : \A q \in S : k <= q

\* plan Y is plan X with amount moved from cell from into cell to
Moved(X, Y, from, to, amount) ==
  /\ ChangedCells(X, Y) = {from, to}
  /\ Y[from[1]][from[2]] = X[from[1]][from[2]] - amount
  /\ Y[to[1]][to[2]] = X[to[1]][to[2]] + amount
  /\ PlanTotal(Y) = PlanTotal(X)

\* what the step promises for plan X, entering cell (i, j) and returned plan Y
ImprovementStepAsDescribed(X, Y, i, j) ==
  LET supply == AvailableSupply(X, i)
      demand == UnmetDemand(X, j)
      cols == OtherColumns(X, i, j)
      rows == OtherRows(X, i, j)
      rowAmount == Min3(X[i][First(cols)], demand, 1)
      colAmount == Min3(X[First(rows)][j], supply, 1)
  IN IF supply > 0 /\ demand > 0
     THEN /\ ChangedCells(X, Y) = {<<i, j>>}
          /\ Y[i][j] = X[i][j] + Min2(supply, demand)
     ELSE IF cols # {} /\ rowAmount > 0
     THEN /\ rowAmount <= 1
          /\ Moved(X, Y, <<i, First(cols)>>, <<i, j>>, rowAmount)
     ELSE IF rows # {} /\ colAmount > 0
     THEN /\ colAmount <= 1
          /\ Moved(X, Y, <<First(rows), j>>, <<i, j>>, colAmount)
     ELSE Y = X

\* C23: improveSolution adds min(availableSupply, unmetDemand) to the
\* entering cell alone when both are positive; otherwise it moves at most one
\* unit into it from the first positive cell of its row, or failing that of
\* its column, keeping the total flow; with no positive move the plan comes
\* back unchanged
C23_ImprovementStepMovesAsDescribed ==
  (pc = "improved") =>
    /\ ImprovementStepAsDescribed(transportationPlan, newPlan,
                                  entering[1], entering[2])
    /\ Cardinality(ChangedCells(transportationPlan, newPlan)) <= 2

\* a move out of the entering cell's column: free supply, no unmet demand
C23_Witness ==
  /\ pc = "improved"
  /\ AvailableSupply(transportationPlan, entering[1]) > 0
  /\ UnmetDemand(transportationPlan, entering[2]) = 0
  /\ OtherColumns(transportationPlan, entering[1], entering[2]) # {}
  /\ Cardinality(ChangedCells(transportationPlan, newPlan)) = 2
  /\ newPlan[entering[1]][entering[2]] =
       transportationPlan[entering[1]][entering[2]] + 1

\* ------------------------------------------------------ stagnation (C24)
\* the pass of the loop about to run finds an improvement and improveSolution
\* returns a plan equal to the current one
StalledPass ==
  /\ pc = "loop"
  /\ LoopCondition(isOptimal, iterations)
  /\ LET found == checkOptimality(profitMatrix, transportationPlan,
                                  Suppliers, Customers)
     IN /\ ~found.isOptimal
        /\ Len(found.improvements) > 0
        /\ arraysEqual(transportationPlan,
             improveSolution(transportationPlan, found.improvements[1],
                             Suppliers, Customers))

\* the loop has been left: the totals, the routes, the return
LoopLeft == pc \in {"results", "routes", "done"}

\* C24: when improveSolution returns a plan equal to the current one, the
\* controller leaves the loop at once with the iteration counter as it was,
\* the current plan kept and isOptimal false; after that no test or
\* improvement step runs again, and the returned state is terminal
C24_StagnationEndsTheLoop ==
  /\ [][StalledPass =>
          /\ LoopLeft'
          /\ iterations' = iterations
          /\ transportationPlan' = transportationPlan
          /\ isOptimal' = FALSE]_vars
  /\ [][LoopLeft =>
          /\ LoopLeft'
          /\ UNCHANGED <<transportationPlan, isOptimal, iterations>>]_vars
  /\ [][pc # "done"]_vars

C24_Witness ==
  /\ Returned
  /\ ~isOptimal
  /\ newPlan = transportationPlan
  /\ iterations = 0
  /\ Len(Suppliers) + Len(Customers) >= 4

\* ------------------------------------------------- the plan passed (C25)
\* C25: improveSolution and checkOptimality leave the plan (and the profit
\* matrix) they were given as it was, so that after improveSolution the
\* comparison of the plan held with the plan returned is true exactly when
\* the step changed no cell
C25_CallsLeaveTheirArgumentsAlone ==
  /\ [][(pc \in {"improve", "test"}) =>
          /\ transportationPlan' = transportationPlan
          /\ profitMatrix' = profitMatrix]_vars
  /\ [][(pc = "improve") =>
          (arraysEqual(transportationPlan', newPlan')
             <=> improveSolution(transportationPlan,
                   [supplierIndex |-> entering'[1], customerIndex |-> entering'[2]],
                   Suppliers, Customers) = transportationPlan)]_vars

C25_Witness ==
  /\ pc = "improved"
  /\ ~arraysEqual(transportationPlan, newPlan)
  /\ Cardinality(ChangedCells(transportationPlan, newPlan)) = 2
  /\ AvailableSupply(transportationPlan, entering[1]) = 0

\* ------------------------------------- the loop never changes the plan (C26)
\* the plan held uses every supply and meets every demand of the balanced lists
FullyAllocated ==
  /\ \A i \in 1..Len(Suppliers) : AvailableSupply(transportationPlan, i) = 0
  /\ \A j \in 1..Len(Customers) : UnmetDemand(transportationPlan, j) = 0

\* improveSolution gives the plan back for every improvement the test finds
EveryImprovementStalls ==
  LET found == checkOptimality(profitMatrix, transportationPlan,
                               Suppliers, Customers).improvements
  IN \A k \in 1..Len(found) :
       improveSolution(transportationPlan, found[k], Suppliers, Customers)
         = transportationPlan

\* C26: the plan handed to improveSolution is fully allocated, so the step
\* returns it unchanged and the loop stops on its first pass: the returned
\* plan is the Maximum Element Method plan and the returned iterations is 0
C26_ReturnedPlanIsTheInitialPlan ==
  /\ (pc = "loop") => FullyAllocated /\ EveryImprovementStalls
  /\ (pc \in {"loop", "results", "routes", "done"}) =>
       /\ transportationPlan =
            findOptimalTransportation(profitMatrix, Suppliers, Customers)
       /\ iterations = 0

C26_Witness ==
  /\ Returned
  /\ iterations = 0
  /\ Len(checkOptimality(profitMatrix, transportationPlan,
                         Suppliers, Customers).improvements) >= 2
  /\ transportationPlan =
       findOptimalTransportation(profitMatrix, Suppliers, Customers)
  /\ newPlan = transportationPlan

\* ------------------------------------------- the returned flag (C27)
\* C27: the returned isOptimal is true exactly when checkOptimality, applied
\* to the returned plan and profit matrix, reports no improvement
C27_FlagAgreesWithTheTest ==
  Returned =>
    (isOptimal <=>
       checkOptimality(profitMatrix, transportationPlan,
                       Suppliers, Customers).improvements = <<>>)

C27_Witness ==
  /\ Returned
  /\ isOptimal
  /\ Len(Suppliers) >= 2
  /\ Len(Customers) >= 2
  /\ Cardinality(BasicCells) >= 3
  /\ \E c \in (1..Len(Suppliers)) \X (1..Len(Customers)) :
       c \notin BasicCells /\ Delta(c) < 0

\* ------------------------------------------ totals against routes (C28)
\* the totals OptimalTransportationTable recomputes from the route list
TableTotalProfit(routes) ==
  SumSeq([k \in 1..Len(routes) |-> routes[k].quantity * routes[k].unitProfit])

TableTotalRevenue(routes) ==
  SumSeq([k \in 1..Len(routes) |-> routes[k].quantity * routes[k].sellingPrice])

\* C28: the returned totalProfit is the sum over the returned routes of
\* quantity * unitProfit and the returned totalRevenue the sum of
\* quantity * sellingPrice, with or without a fictitious supplier
C28_TotalsMatchTheRouteTable ==
  (Returned /\ problem \in Problems) =>
    /\ results.totalProfit = TableTotalProfit(optimalRoutes)
    /\ results.totalRevenue = TableTotalRevenue(optimalRoutes)

PageInputs(h) == <<h.suppliers, h.customers, h.transportationCosts>>

\* C30: a solution held by the page is the solver's result for the
\* suppliers, customers and costs held with it; no step changes those inputs
\* while isCalculating is true; and every step that changes them clears the
\* solution
C30_SolutionIsNeverStale ==
  /\ [](home.solution # <<>> =>
          /\ isReadyToCalculate(home)
          /\ validateProblem(PageProblem(home))
          /\ home.solution[1] = solveMiddlemanProblem(PageProblem(home)))
  /\ [][home.isCalculating => PageInputs(home') = PageInputs(home)]_vars
  /\ [][(PageInputs(home') # PageInputs(home)) => home'.solution = <<>>]_vars

\* a solution for inputs that were changed after the example was loaded,
\* computed while a form stayed open
C30_Witness ==
  /\ pc = "page"
  /\ home.solution # <<>>
  /\ Len(home.suppliers) = 1
  /\ home.showCustomerForm
  /\ home.events = MaxEvents

====
